---- MODULE Spec2Model ----
(***************************************************************************)
(* School registration form with a conversational assistant.              *)
(*                                                                         *)
(*   SchoolForm.tsx  owns the record formData and the handlers that        *)
(*                   mutate it (handleChange, handleFileChange,            *)
(*                   handleVoiceUpdate, handleSubmit).                     *)
(*   FileInput.tsx   reads a chosen file asynchronously and reports it     *)
(*                   through handleFileChange when the read ends.          *)
(*   ChatBot.tsx     getNextMissingField, the live (voice) session and     *)
(*                   its tool-call handling, and the typed conversation    *)
(*                   (handleSendMessage).                                  *)
(*                                                                         *)
(* The specifications share the definitions below:                        *)
(*   SpecNMF   getNextMissingField applied to an arbitrary record;         *)
(*   SpecLevel the level set through the form and through the tool;        *)
(*   SpecSubmit submitSchoolData under every answer of the network;        *)
(*   SpecForm  the form record under edits, file reads and tool updates;   *)
(*   SpecTools one open live session and the tool calls it receives;       *)
(*   SpecAudio playback scheduling of the audio chunks received;           *)
(*   SpecCapture the life cycle with the microphone blocks sent;           *)
(*   SpecMerge a manual edit and a tool update applied in either order;    *)
(*   SpecReset submissions of the form, the network answering in any way;  *)
(*   SpecConnect connection attempts whose pending events all happen;      *)
(*   SpecReplies the handler of tool calls and the sending of responses;   *)
(*   SpecTeardown sessions stopped by the user, where a release may throw; *)
(*   SpecChat  the typed conversation and the tool calls of its responses; *)
(*   SpecLoading the typed conversation, every answer arriving that can;   *)
(*   Spec      the life cycle of live sessions.                            *)
(***************************************************************************)
EXTENDS Integers, Sequences, FiniteSets, TLC

VARIABLES
    formData,      \* SchoolForm: useState<SchoolData>(INITIAL_DATA)
    reads,         \* FileInput: the fields whose FileReader read is in flight
    submit,        \* SchoolForm: isSubmitting and the requests in flight
    lastOp,        \* history: the last mutation of formData, and how many there were
    chat,          \* ChatBot: its state hooks and refs
    res,           \* environment: microphone streams, audio contexts, network sessions
    wire,          \* environment: the last inbound message's tool calls, the responses
                   \* queued on sessionPromise and the responses sent; history: how
                   \* things stood at the last sendRealtimeInput
    lastDisc,      \* history: the call of disconnectLiveSession in the last step, or the
                   \* call of startLiveSession that returned at once, with the state before
    env,           \* environment: API key, media devices, the props ChatBot is given
    nmfIn,         \* SpecNMF: the argument given to getNextMissingField
    nmfOut,        \* SpecNMF: what it returned
    twin,          \* SpecLevel: the record of formData taken through the tool path
    apiIn,         \* SpecSubmit: what the network does with a submission request
    apiOut,        \* SpecSubmit: how submitSchoolData ended
    merge,         \* SpecMerge: the record before, and the writers applied since
    turn           \* ChatBot: the hooks of the typed conversation (inputValue,
                   \* selectedImage, isLoading); environment: the generateContent
                   \* requests in flight; history: how the last handleSendMessage went

vars == <<formData, reads, submit, lastOp, chat, res, wire, lastDisc, env, nmfIn, nmfOut,
          twin, apiIn, apiOut, merge, turn>>

formVars == <<formData, reads, submit, lastOp>>
liveVars == <<chat, res, wire, lastDisc, env>>
nmfVars  == <<nmfIn, nmfOut>>
pureVars == <<nmfVars, twin, apiIn, apiOut, merge, turn>>

----------------------------------------------------------------------------
(* Values                                                                  *)

\* JavaScript undefined / null.
Undefined == "<undefined>"
Null == "<null>"

\* A non-empty string a user typed, the model sent, or a data URL read from a file.
SomeText == "x"

PRIMARY == "Primary (1-5)"
UPPER_PRIMARY == "Upper Primary (1-8)"

\* types.ts SCHOOL_LEVELS
SCHOOL_LEVELS == {PRIMARY, UPPER_PRIMARY}

\* The nine text fields and the four attachment fields of SchoolData.
TextKeys ==
    {"schoolName", "udiseCode", "block", "district", "level",
     "principalName", "societyTrustName", "phone", "email"}

FileKeys ==
    {"schoolPicture", "principalPicture",
     "registrationCertificatePrimary", "registrationCertificateUpper"}

SchoolDataKeys == TextKeys \cup FileKeys

\* A JavaScript value is falsy when it is undefined, null or the empty string.
Falsy(v) == v \in {Undefined, Null, ""}

\* An object reference that is undefined (currentData?: SchoolData). Objects are
\* functions from keys to values; this one is told apart by its single key.
UndefinedData == [k \in {Undefined} |-> Undefined]

\* getNextMissingField has not been applied yet (SpecNMF).
NotCalled == "<not called>"

\* data[key]: undefined when the object has no such key.
Get(data, key) == IF key \in DOMAIN data THEN data[key] ELSE Undefined

\* { ...a, ...b }: spreading undefined contributes nothing.
Spread(a, b) ==
    LET da == IF a = UndefinedData THEN {} ELSE DOMAIN a
        db == IF b = UndefinedData THEN {} ELSE DOMAIN b
    IN  [k \in da \cup db |-> IF k \in db THEN b[k] ELSE a[k]]

INITIAL_DATA == [k \in SchoolDataKeys |-> ""]

\* Every record with the 13 keys of SchoolData: each field empty or filled, the
\* level empty, one of the two levels, or some other text.
LevelValues == {"", PRIMARY, UPPER_PRIMARY, SomeText}

SchoolDataValues ==
    { [k \in SchoolDataKeys |-> IF k = "level" THEN l ELSE f[k]] :
        f \in [SchoolDataKeys \ {"level"} -> {"", SomeText}], l \in LevelValues }

----------------------------------------------------------------------------
(* ChatBot.tsx: INTERVIEW_ORDER and getNextMissingField                    *)

INTERVIEW_ORDER ==
    << [key |-> "schoolName",       label |-> "School Name"],
       [key |-> "udiseCode",        label |-> "UDISE Code"],
       [key |-> "block",            label |-> "Block (e.g., Khowai, Teliamura)"],
       [key |-> "district",         label |-> "District"],
       [key |-> "level",            label |-> "Level (Primary, Upper Primary)"],
       [key |-> "principalName",    label |-> "Principal Name"],
       [key |-> "societyTrustName", label |-> "Name of Society or Trust"],
       [key |-> "phone",            label |-> "Phone Number"],
       [key |-> "email",            label |-> "Email Address"] >>

SchoolPictureLabel    == "School Picture (Please upload via UI)"
PrincipalPictureLabel == "Principal Picture (Please upload via UI)"
PrimaryPdfLabel       == "Primary Registration PDF (Please upload via UI)"
UpperPdfLabel         == "Upper Primary Registration PDF (Please upload via UI)"
ReadyLabel            == "All fields are filled. Ready to submit?"

\* The for loop over INTERVIEW_ORDER: the label of the first entry from index i on
\* whose field is falsy, or Undefined when the loop falls through.
RECURSIVE FirstMissingFrom(_, _)
FirstMissingFrom(data, i) ==
    IF i > Len(INTERVIEW_ORDER) THEN Undefined
    ELSE IF Falsy(Get(data, INTERVIEW_ORDER[i].key)) THEN INTERVIEW_ORDER[i].label
    ELSE FirstMissingFrom(data, i + 1)

\* The attachment checks with the conditional upper-primary check returning
\* nothing for a missing upper certificate (a faulty variant of getNextMissingField).
getNextMissingFieldNoResult(data) ==
    IF data = UndefinedData THEN INTERVIEW_ORDER[1].label
    ELSE IF FirstMissingFrom(data, 1) # Undefined THEN FirstMissingFrom(data, 1)
    ELSE IF Falsy(Get(data, "schoolPicture")) THEN SchoolPictureLabel
    ELSE IF Falsy(Get(data, "principalPicture")) THEN PrincipalPictureLabel
    ELSE IF Falsy(Get(data, "registrationCertificatePrimary")) THEN PrimaryPdfLabel
    ELSE IF Get(data, "level") = UPPER_PRIMARY
            /\ Falsy(Get(data, "registrationCertificateUpper")) THEN Undefined
    ELSE ReadyLabel

\* The upper-primary certificate asked for at every level (a faulty
\* variant of getNextMissingField).
getNextMissingFieldAnyLevel(data) ==
    IF data = UndefinedData THEN INTERVIEW_ORDER[1].label
    ELSE IF FirstMissingFrom(data, 1) # Undefined THEN FirstMissingFrom(data, 1)
    ELSE IF Falsy(Get(data, "schoolPicture")) THEN SchoolPictureLabel
    ELSE IF Falsy(Get(data, "principalPicture")) THEN PrincipalPictureLabel
    ELSE IF Falsy(Get(data, "registrationCertificatePrimary")) THEN PrimaryPdfLabel
    ELSE IF Falsy(Get(data, "registrationCertificateUpper")) THEN UpperPdfLabel
    ELSE ReadyLabel

getNextMissingField(data) ==
    IF data = UndefinedData THEN INTERVIEW_ORDER[1].label
    ELSE IF FirstMissingFrom(data, 1) # Undefined THEN FirstMissingFrom(data, 1)
    ELSE IF Falsy(Get(data, "schoolPicture")) THEN SchoolPictureLabel
    ELSE IF Falsy(Get(data, "principalPicture")) THEN PrincipalPictureLabel
    ELSE IF Falsy(Get(data, "registrationCertificatePrimary")) THEN PrimaryPdfLabel
    ELSE IF Get(data, "level") = UPPER_PRIMARY
            /\ Falsy(Get(data, "registrationCertificateUpper")) THEN UpperPdfLabel
    ELSE ReadyLabel

----------------------------------------------------------------------------
(* SchoolForm.tsx: the handlers that mutate formData, as functions of the  *)
(* previous record (each is the updater passed to setFormData; React       *)
(* applies queued updaters in call order, so formData is the record after  *)
(* every handler called so far).                                           *)

\* handleChange without the clearing rule (a faulty variant of handleChange).
handleChangeNoClear(prev, name, value) == Spread(prev, [k \in {name} |-> value])

handleChange(prev, name, value) ==
    LET newData == Spread(prev, [k \in {name} |-> value])
    IN  IF name = "level" /\ value = PRIMARY
        THEN Spread(newData, [k \in {"registrationCertificateUpper"} |-> ""])
        ELSE newData

\* A file handler that builds the record from the empty one instead of the
\* previous state (a faulty variant of handleFileChange).
handleFileChangeFromEmpty(prev, name, base64) ==
    Spread(INITIAL_DATA, [k \in {name} |-> base64])

handleFileChange(prev, name, base64) == Spread(prev, [k \in {name} |-> base64])

\* handleVoiceUpdate clearing the certificate before the merge instead of after
\* it (a faulty variant of handleVoiceUpdate).
handleVoiceUpdateClearFirst(prev, updates) ==
    IF ~Falsy(Get(updates, "level")) /\ Get(updates, "level") = PRIMARY
    THEN Spread(Spread(prev, [k \in {"registrationCertificateUpper"} |-> ""]), updates)
    ELSE Spread(prev, updates)

handleVoiceUpdate(prev, updates) ==
    LET newData == Spread(prev, updates)
    IN  IF ~Falsy(Get(updates, "level")) /\ Get(updates, "level") = PRIMARY
        THEN Spread(newData, [k \in {"registrationCertificateUpper"} |-> ""])
        ELSE newData

----------------------------------------------------------------------------
(* Bounds                                                                  *)

\* Mutations of formData in one run.
MaxOps == 3
\* FileReader reads in flight at once.
MaxReads == 1
\* Calls of startLiveSession that go past its two guards, in one run.
MaxSessions == 2
\* Inbound messages of live sessions in one run, and tool calls in one message.
MaxMsgs == 1
MaxCalls == 2
\* Submission requests in flight at once.
MaxSubmits == 1
\* The longest audio chunk.
MaxDuration == 1
\* Characters in one transcript fragment.
FragmentLen == 90
\* Audio chunks in one run of the playback specification, and how far the clock
\* of an output context runs.
MaxChunks == 3
MaxTime == 2

----------------------------------------------------------------------------
(* The form: SchoolForm.tsx and FileInput.tsx                              *)

\* The part of an argument mapping that concerns the level rule.
LevelRuleKeys == {"level", "registrationCertificateUpper"}
Restrict(updates, keys) == [k \in (DOMAIN updates) \cap keys |-> updates[k]]

FormInit ==
    /\ formData = INITIAL_DATA
    /\ reads = {}
    /\ submit = [isSubmitting |-> FALSE, inflight |-> <<>>]
    /\ lastOp = [op |-> "none", args |-> <<>>, n |-> 0]

\* What the inputs and the select of the form can produce: any text in a text
\* field, one of SCHOOL_LEVELS in the level select (its empty option is disabled).
ManualEdits ==
    { <<k, v>> : k \in TextKeys \ {"level"}, v \in {"", SomeText} }
        \cup { <<"level", l>> : l \in SCHOOL_LEVELS }

\* The FileInput of the upper-primary certificate is rendered only for that level.
Mounted(name) ==
    name # "registrationCertificateUpper" \/ formData["level"] = UPPER_PRIMARY

\* <Input onChange={handleChange}> / <Select onChange={handleChange}>
Change(name, value) ==
    /\ lastOp.n < MaxOps
    /\ formData' = handleChange(formData, name, value)
    /\ lastOp' = [op |-> "handleChange",
                  args |-> Restrict([k \in {name} |-> value], LevelRuleKeys),
                  n |-> lastOp.n + 1]
    /\ UNCHANGED <<reads, submit>>

\* FileInput.processFile(file): the read is started, nothing is reported yet.
ChooseFile(name) ==
    /\ Mounted(name)
    /\ name \notin reads
    /\ Cardinality(reads) < MaxReads
    /\ lastOp.n < MaxOps
    /\ reads' = reads \cup {name}
    /\ UNCHANGED <<formData, submit, lastOp>>

\* reader.onloadend: onChange(name, base64String), that is handleFileChange. The
\* callback belongs to the reader, not to the mounted component.
ReadEnd(name) ==
    /\ name \in reads
    /\ lastOp.n < MaxOps
    /\ reads' = reads \ {name}
    /\ formData' = handleFileChange(formData, name, SomeText)
    /\ lastOp' = [op |-> "handleFileChange",
                  args |-> Restrict([k \in {name} |-> SomeText], LevelRuleKeys),
                  n |-> lastOp.n + 1]
    /\ UNCHANGED submit

\* FileInput.clearFile, or processFile(undefined): onChange(name, "").
ClearFile(name) ==
    /\ Mounted(name)
    /\ lastOp.n < MaxOps
    /\ formData' = handleFileChange(formData, name, "")
    /\ lastOp' = [op |-> "handleFileChange",
                  args |-> Restrict([k \in {name} |-> ""], LevelRuleKeys),
                  n |-> lastOp.n + 1]
    /\ UNCHANGED <<reads, submit>>

\* onUpdateForm(args): handleVoiceUpdate called for an update_school_data tool call
\* (of the live session or of the chat).
VoiceUpdate(updates) ==
    /\ lastOp.n < MaxOps
    /\ formData' = handleVoiceUpdate(formData, updates)
    /\ lastOp' = [op |-> "handleVoiceUpdate",
                  args |-> Restrict(updates, LevelRuleKeys),
                  n |-> lastOp.n + 1]
    /\ UNCHANGED <<reads, submit>>

\* Argument mappings of update_school_data: every single field with every value,
\* and every mapping over the level and the two certificates.
CertKeys == {"registrationCertificatePrimary", "registrationCertificateUpper"}

ArgValues(k) == IF k = "level" THEN LevelValues ELSE {"", SomeText}

SingleUpdates ==
    { [k \in {key} |-> v] : <<key, v>> \in
        UNION { {<<k, v>> : v \in ArgValues(k)} : k \in SchoolDataKeys } }

LevelUpdates ==
    UNION { { f \in [S -> LevelValues] : \A k \in S : f[k] \in ArgValues(k) } :
            S \in SUBSET (CertKeys \cup {"level"}) }

\* fc.args is passed on as it came (fc.args as any): a mapping with a key that
\* the tool's declaration does not list.
ForeignKey == "teacherCount"
ForeignUpdates == { [k \in {ForeignKey} |-> SomeText] }

FormUpdates == SingleUpdates \cup LevelUpdates \cup ForeignUpdates

\* handleSubmit's validation of the record it closes over: the required fields,
\* with the upper-primary certificate required (and checked) only for that level.
\* A filled field holds a well-formed value.
IsValid(data) ==
    /\ \A k \in SchoolDataKeys \ {"registrationCertificateUpper"} : ~Falsy(Get(data, k))
    /\ Get(data, "level") = UPPER_PRIMARY
          => ~Falsy(Get(data, "registrationCertificateUpper"))

\* handleSubmit(), as far as the request is sent: submit after it ran on `data`.
handleSubmit(sub, data) ==
    IF IsValid(data)
    THEN [isSubmitting |-> TRUE, inflight |-> Append(sub.inflight, data)]
    ELSE sub

\* The form's own submit button (disabled while isSubmitting).
SubmitClick ==
    /\ ~submit.isSubmitting
    /\ Len(submit.inflight) < MaxSubmits
    /\ IsValid(formData)
    /\ submit' = handleSubmit(submit, formData)
    /\ UNCHANGED <<formData, reads, lastOp>>

\* handleSubmit() on a record that fails validation [128-151]: the errors are
\* shown and nothing is sent.
SubmitInvalid ==
    /\ ~submit.isSubmitting
    /\ ~IsValid(formData)
    /\ lastOp.n < MaxOps
    /\ submit' = handleSubmit(submit, formData)
    /\ lastOp' = [op |-> "invalid", args |-> <<>>, n |-> lastOp.n + 1]
    /\ UNCHANGED <<formData, reads>>

\* A form that is reset whenever a response arrives (a faulty variant of
\* SubmitDone).
SubmitDoneAlwaysResets(success) ==
    /\ submit.inflight # <<>>
    /\ submit' = [isSubmitting |-> FALSE, inflight |-> Tail(submit.inflight)]
    /\ formData' = INITIAL_DATA
    /\ lastOp' = [op |-> "reset", args |-> <<>>, n |-> lastOp.n]
    /\ UNCHANGED reads

\* The response of submitSchoolData arrives: on success the form is reset.
SubmitDone(success) ==
    /\ submit.inflight # <<>>
    /\ submit' = [isSubmitting |-> FALSE, inflight |-> Tail(submit.inflight)]
    /\ IF success
       THEN /\ formData' = INITIAL_DATA
            /\ lastOp' = [op |-> "reset", args |-> <<>>, n |-> lastOp.n]
       ELSE UNCHANGED <<formData, lastOp>>
    /\ UNCHANGED reads

----------------------------------------------------------------------------
(* ChatBot.tsx: component state, refs, and the resources behind them       *)

SUPPORT_MSG == "For more support Please call +918974257871"
Greeting == "Hello, I am Arup Kumar AI Assistant. ..."

\* liveCaption is kept as the pieces it was built from; its length decides the
\* reset in onmessage.
PieceLen(piece) ==
    CASE piece = "Connecting..." -> 13
      [] piece = "Listening..."  -> 12
      [] piece = "..."           -> 3
      [] piece = "fragment"      -> FragmentLen
      [] OTHER                   -> 0

RECURSIVE CaptionLen(_)
CaptionLen(caption) ==
    IF caption = <<>> THEN 0 ELSE PieceLen(Head(caption)) + CaptionLen(Tail(caption))

\* prev.length > 100 ? "..." : prev
CaptionLimit == 100

Attempts == 1 .. MaxSessions

\* What one call of startLiveSession acquires, and where its callbacks stand.
NoAttempt ==
    [ call         |-> "none",     \* none, awaitMedia (awaiting getUserMedia), done, failed
      missingField |-> Undefined,  \* the field named in the system instruction
      stream       |-> "none",     \* microphone stream: none, live, stopped
      inCtx        |-> "none",     \* input AudioContext: none, running, closed
      outCtx       |-> "none",     \* output AudioContext: none, suspended, running, closed
      time         |-> 0,          \* currentTime of the output AudioContext
      session      |-> "none",     \* network session: none, connecting, open, closing, closed,
                                   \* rejected (connect failed before opening a socket)
      resolved     |-> FALSE,      \* sessionPromise has resolved
      closeAsked   |-> FALSE,      \* a then(s => s.close()) waits on the pending promise
      onopen       |-> "none",     \* onopen callback: none, awaitResume, done, failed
      resuming     |-> 0,          \* output context whose resume() onopen awaits
      capture      |-> 0,          \* input context the capture pipeline is attached to
      played       |-> <<>> ]      \* history: the chunks started on the output context

\* The environments: everything in place; no API key; no media devices; a ChatBot
\* rendered without its optional props.
UsualEnv == [apiKey |-> TRUE, mediaDevices |-> TRUE, props |-> TRUE]

Environments ==
    { UsualEnv,
      [apiKey |-> FALSE, mediaDevices |-> TRUE,  props |-> TRUE],
      [apiKey |-> TRUE,  mediaDevices |-> FALSE, props |-> TRUE],
      [apiKey |-> TRUE,  mediaDevices |-> TRUE,  props |-> FALSE] }

LiveInit ==
    /\ chat = [ isOpen               |-> FALSE,
                messages             |-> <<Greeting>>,
                isLiveConnected      |-> FALSE,
                isConnecting         |-> FALSE,
                liveCaption          |-> <<>>,
                onUpdateFormRef      |-> env.props,
                onSubmitFormRef      |-> env.props,
                currentDataRef       |-> IF env.props THEN INITIAL_DATA ELSE UndefinedData,
                mediaStreamRef       |-> 0,
                sessionRef           |-> 0,
                audioContextRef      |-> 0,
                inputAudioContextRef |-> 0,
                nextStartTimeRef     |-> 0,
                sourcesRef           |-> {} ]
    /\ res = [k \in Attempts |-> NoAttempt]
    /\ wire = [n |-> 0, session |-> 0, recv |-> <<>>, sent |-> <<>>, queued |-> <<>>,
               mic |-> [session |-> "none", connected |-> FALSE]]
    /\ lastDisc = <<>>

\* The hooks of the typed conversation [106-108], with no request in flight.
NoImage == Null
TurnInit ==
    turn = [ inputValue    |-> "",
             selectedImage |-> NoImage,
             isLoading     |-> FALSE,
             inflight      |-> <<>>,     \* generateContent calls not yet settled
             n             |-> 0,        \* history: calls of handleSendMessage so far
             answer        |-> [calls |-> <<>>, text |-> Undefined],
                                         \* history: the response that arrived last
             last          |-> "none" ]  \* history: none, ignored, sent, threw, answered,
                                         \* rejected: the last step handleSendMessage took

\* The effect [ChatBot.tsx 121-125]: the refs take the props of the last render.
SyncRefs ==
    /\ env.props
    /\ chat.currentDataRef # formData
    /\ chat' = [chat EXCEPT !.currentDataRef = formData]
    /\ UNCHANGED <<res, wire, lastDisc, env>>

\* session.close(): the socket starts closing; its onclose follows.
CloseSession(r, j) ==
    IF r[j].session \in {"connecting", "open"} THEN [r EXCEPT ![j].session = "closing"] ELSE r

\* sessionRef.current.then(s => s.close()): at once when the promise has resolved,
\* when it resolves otherwise (never, if the connection fails first).
ThenClose(r, j) ==
    IF j = 0 THEN r
    ELSE IF r[j].resolved THEN CloseSession(r, j)
    ELSE [r EXCEPT ![j].closeAsked = TRUE]

StopTracks(r, j) == IF j = 0 THEN r ELSE [r EXCEPT ![j].stream = "stopped"]
CloseOutput(r, j) == IF j = 0 THEN r ELSE [r EXCEPT ![j].outCtx = "closed"]
CloseInput(r, j) == IF j = 0 THEN r ELSE [r EXCEPT ![j].inCtx = "closed"]

\* A teardown that leaves the microphone running (a faulty variant of disconnectReleases).
disconnectReleasesKeepMic(c, r) ==
    CloseInput(CloseOutput(ThenClose(r, c.sessionRef), c.audioContextRef),
               c.inputAudioContextRef)

\* disconnectLiveSession [374-380]: what it releases, given the refs in c.
disconnectReleases(c, r) ==
    CloseInput(CloseOutput(ThenClose(StopTracks(r, c.mediaStreamRef), c.sessionRef),
                           c.audioContextRef),
               c.inputAudioContextRef)

\* The four releases in the order of the try block [376-379].
Releases == 1 .. 4

Release(c, r, i) ==
    CASE i = 1 -> StopTracks(r, c.mediaStreamRef)
      [] i = 2 -> ThenClose(r, c.sessionRef)
      [] i = 3 -> CloseOutput(r, c.audioContextRef)
      [] i = 4 -> CloseInput(r, c.inputAudioContextRef)

\* The try block [375-380] when release number failAt throws (0: none does): the
\* releases before it have run, the catch swallows the error, and the rest of
\* the block is skipped.
RECURSIVE ReleasesBefore(_, _, _)
ReleasesBefore(c, r, i) ==
    IF i = 0 THEN r ELSE Release(c, ReleasesBefore(c, r, i - 1), i)

disconnectReleasesThrowing(c, r, failAt) ==
    IF failAt = 0 THEN disconnectReleases(c, r) ELSE ReleasesBefore(c, r, failAt - 1)

\* A teardown that also reports to the chat log (a faulty variant of disconnectLiveSession).
disconnectLiveSessionLogging(c) ==
    [c EXCEPT !.isLiveConnected = FALSE, !.isConnecting = FALSE, !.liveCaption = <<>>,
              !.mediaStreamRef = 0, !.sessionRef = 0,
              !.audioContextRef = 0, !.inputAudioContextRef = 0,
              !.messages = Append(c.messages, "Voice mode ended.")]

\* disconnectLiveSession [381-387]: the component state it leaves.
disconnectLiveSession(c) ==
    [c EXCEPT !.isLiveConnected = FALSE, !.isConnecting = FALSE, !.liveCaption = <<>>,
              !.mediaStreamRef = 0, !.sessionRef = 0,
              !.audioContextRef = 0, !.inputAudioContextRef = 0]

----------------------------------------------------------------------------
(* ChatBot.tsx: startLiveSession                                           *)

\* The next call of startLiveSession that passes the guards is attempt NextAttempt.
NextAttempt == Cardinality({k \in Attempts : res[k].call # "none"}) + 1

\* The errors startLiveSession can catch: the two it throws itself [215, 219]
\* and the rejection of getUserMedia. mentionsKey: message.includes("API Key").
KeyMissingError ==
    [ name |-> "Error", mentionsKey |-> TRUE,
      message |-> "API Key is missing. Please check your environment variables." ]
UnsupportedError ==
    [ name |-> "Error", mentionsKey |-> FALSE,
      message |-> "Microphone access is not supported in this context. Ensure you are using HTTPS." ]
DeniedError ==
    [ name |-> "NotAllowedError", mentionsKey |-> FALSE, message |-> "Permission denied" ]

\* `Error: ${errMsg}` for the messages that occur.
ErrorLine(errMsg) ==
    CASE errMsg = KeyMissingError.message ->
             "Error: API Key is missing. Please check your environment variables."
      [] errMsg = UnsupportedError.message ->
             "Error: Microphone access is not supported in this context. Ensure you are using HTTPS."
      [] errMsg = DeniedError.message -> "Error: Permission denied"
      [] OTHER -> "Error: ..."

\* A status line that reports every error by its text (a faulty variant of
\* errorMessageOf).
errorMessageOfText(e) ==
    IF e.message # "" THEN ErrorLine(e.message) ELSE "Unable to start voice mode."

\* [359-364] the status line for a caught error.
errorMessageOf(e) ==
    IF e.mentionsKey THEN "API Key is missing."
    ELSE IF e.name = "NotAllowedError" THEN "Microphone access denied."
    ELSE IF e.message # "" THEN ErrorLine(e.message)
    ELSE "Unable to start voice mode."

\* The catch block [353-371], entered with component state c during attempt k
\* on error e.
CatchStart(c, k, e) ==
    LET c2 == [c EXCEPT !.isLiveConnected = FALSE, !.isConnecting = FALSE]
        c3 == disconnectLiveSession(c2)
    IN  /\ chat' = [c3 EXCEPT !.isOpen = TRUE,
                              !.messages = c3.messages \o <<errorMessageOf(e), SUPPORT_MSG>>]
        /\ res' = [disconnectReleases(c2, res) EXCEPT ![k].call = "failed"]
        /\ lastDisc' = <<[by |-> "catch", pre |-> c2, preRes |-> res, attempt |-> k]>>

\* startLiveSession tearing the session down and going on to connect again (a
\* faulty variant of StartWhileConnected).
StartWhileConnectedReconnects ==
    /\ ~chat.isConnecting
    /\ chat.isLiveConnected
    /\ chat' = [disconnectLiveSession(chat) EXCEPT !.isConnecting = TRUE,
                                                   !.liveCaption = <<"Connecting...">>]
    /\ res' = disconnectReleases(chat, res)
    /\ lastDisc' = <<[by |-> "start", pre |-> chat, preRes |-> res, attempt |-> 0]>>
    /\ UNCHANGED <<wire, env>>

\* The voice button is disabled while isConnecting.
\* [203-206] a click while connected tears the session down and returns.
StartWhileConnected ==
    /\ ~chat.isConnecting
    /\ chat.isLiveConnected
    /\ chat' = disconnectLiveSession(chat)
    /\ res' = disconnectReleases(chat, res)
    /\ lastDisc' = <<[by |-> "start", pre |-> chat, preRes |-> res, attempt |-> 0]>>
    /\ UNCHANGED <<wire, env>>

\* startLiveSession going on to acquire a stream although a connection attempt
\* is in progress (a faulty variant of StartWhileConnecting).
StartWhileConnectingStacks ==
    /\ chat.isConnecting /\ ~chat.isLiveConnected
    /\ chat' = chat
    /\ res' = IF Cardinality({k \in Attempts : res[k].call # "none"}) < MaxSessions
              THEN [res EXCEPT ![Cardinality({k \in Attempts : res[k].call # "none"}) + 1].call =
                                   "awaitMedia"]
              ELSE res
    /\ lastDisc' = <<[by |-> "ignored", pre |-> chat, preRes |-> res, attempt |-> 0]>>
    /\ UNCHANGED <<wire, env>>

\* [203-208] startLiveSession called while a connection attempt is in progress
\* (the button is disabled then; the function has its own guard): it returns.
StartWhileConnecting ==
    /\ chat.isConnecting /\ ~chat.isLiveConnected
    /\ lastDisc' = <<[by |-> "ignored", pre |-> chat, preRes |-> res, attempt |-> 0]>>
    /\ UNCHANGED <<chat, res, wire, env>>

Connecting(c) == [c EXCEPT !.isConnecting = TRUE, !.liveCaption = <<"Connecting...">>]

\* [210-216] no API key: the throw is caught at once.
StartNoKey ==
    /\ ~chat.isConnecting /\ ~chat.isLiveConnected
    /\ NextAttempt \in Attempts
    /\ ~env.apiKey
    /\ CatchStart(Connecting(chat), NextAttempt, KeyMissingError)
    /\ UNCHANGED <<wire, env>>

\* [218-220] no navigator.mediaDevices.getUserMedia.
StartNoMediaDevices ==
    /\ ~chat.isConnecting /\ ~chat.isLiveConnected
    /\ NextAttempt \in Attempts
    /\ env.apiKey /\ ~env.mediaDevices
    /\ CatchStart(Connecting(chat), NextAttempt, UnsupportedError)
    /\ UNCHANGED <<wire, env>>

\* [210-229] up to the await of getUserMedia.
StartAwaitMedia ==
    /\ ~chat.isConnecting /\ ~chat.isLiveConnected
    /\ NextAttempt \in Attempts
    /\ env.apiKey /\ env.mediaDevices
    /\ chat' = Connecting(chat)
    /\ res' = [res EXCEPT ![NextAttempt].call = "awaitMedia",
                          ![NextAttempt].missingField =
                              getNextMissingField(chat.currentDataRef)]
    /\ lastDisc' = <<>>
    /\ UNCHANGED <<wire, env>>

\* getUserMedia rejects (NotAllowedError): the catch block.
MediaDenied(k) ==
    /\ res[k].call = "awaitMedia"
    /\ CatchStart(chat, k, DeniedError)
    /\ UNCHANGED <<wire, env>>

\* [229-351] getUserMedia resolves: the stream and both contexts are stored in the
\* refs and the connection is begun. The output context may start suspended.
MediaGranted(k, outState) ==
    /\ res[k].call = "awaitMedia"
    /\ res' = [res EXCEPT ![k].call = "done",
                          ![k].stream = "live",
                          ![k].inCtx = "running",
                          ![k].outCtx = outState,
                          ![k].session = "connecting"]
    /\ chat' = [chat EXCEPT !.mediaStreamRef = k, !.inputAudioContextRef = k,
                            !.audioContextRef = k, !.sessionRef = k]
    /\ lastDisc' = <<>>
    /\ UNCHANGED <<wire, env>>

\* The main button while connected (disabled while isConnecting):
\* onClick = disconnectLiveSession.
StopClick ==
    /\ chat.isLiveConnected /\ ~chat.isConnecting
    /\ chat' = disconnectLiveSession(chat)
    /\ res' = disconnectReleases(chat, res)
    /\ lastDisc' = <<[by |-> "stop", pre |-> chat, preRes |-> res, attempt |-> 0]>>
    /\ UNCHANGED <<wire, env>>

\* The main button while connected, when release number failAt throws.
StopClickThrowing(failAt) ==
    /\ chat.isLiveConnected /\ ~chat.isConnecting
    /\ chat' = disconnectLiveSession(chat)
    /\ res' = disconnectReleasesThrowing(chat, res, failAt)
    /\ lastDisc' = <<[by |-> "stop", pre |-> chat, preRes |-> res, attempt |-> 0]>>
    /\ UNCHANGED <<wire, env>>

----------------------------------------------------------------------------
(* ChatBot.tsx: the callbacks of a live connection                         *)

\* [249-262] the rest of onopen: the capture pipeline is built on the context in
\* inputAudioContextRef; with the ref cleared the non-null assertion fails.
OpenRest(c, r, k) ==
    IF c.inputAudioContextRef = 0
    THEN [r EXCEPT ![k].onopen = "failed"]
    ELSE [r EXCEPT ![k].onopen = "done", ![k].capture = c.inputAudioContextRef]

\* The promise returned by connect resolves once onopen has been called; a
\* then(s => s.close()) registered meanwhile runs now.
Resolve(r, k) ==
    LET r2 == [r EXCEPT ![k].session = "open", ![k].resolved = TRUE]
    IN  IF r[k].closeAsked THEN CloseSession(r2, k) ELSE r2

\* onopen [238-263]
OnOpen(k) ==
    /\ res[k].session = "connecting"
    /\ LET c == [chat EXCEPT !.isLiveConnected = TRUE, !.isConnecting = FALSE,
                             !.isOpen = FALSE, !.liveCaption = <<"Listening...">>]
           a == chat.audioContextRef
       IN  /\ chat' = c
           /\ res' = IF a # 0 /\ res[a].outCtx = "suspended"
                     THEN Resolve([res EXCEPT ![k].onopen = "awaitResume",
                                              ![k].resuming = a], k)
                     ELSE Resolve(OpenRest(c, res, k), k)
    /\ lastDisc' = <<>>
    /\ UNCHANGED <<wire, env>>

\* audioContextRef.current.resume() settles and onopen goes on [246-262]. On a
\* suspended context the promise resolves. On a context closed meanwhile it
\* rejects, and onopen ends there, or it has resolved before the close took
\* effect, and onopen goes on with the refs as they are now.
ResumeSettles(k, rejects) ==
    LET a == res[k].resuming
    IN  /\ res[k].onopen = "awaitResume"
        /\ res[a].outCtx \in {"suspended", "closed"}
        /\ rejects => res[a].outCtx = "closed"
        /\ res' = IF rejects
                  THEN [res EXCEPT ![k].onopen = "failed"]
                  ELSE OpenRest(chat,
                                IF res[a].outCtx = "suspended"
                                THEN [res EXCEPT ![a].outCtx = "running"] ELSE res,
                                k)
        /\ lastDisc' = <<>>
        /\ UNCHANGED <<chat, wire, env>>

\* onclose [323-327]: the socket has closed (closed by us, by the server, or after
\* an error).
OnClose(k) ==
    /\ res[k].session \in {"open", "closing"}
    /\ res' = [res EXCEPT ![k].session = "closed"]
    /\ chat' = [chat EXCEPT !.isLiveConnected = FALSE, !.isConnecting = FALSE]
    /\ lastDisc' = <<>>
    /\ UNCHANGED <<wire, env>>

\* onerror [328-338]: the socket failed; its close event follows.
OnError(k) ==
    /\ res[k].session \in {"connecting", "open"}
    /\ res' = [res EXCEPT ![k].session = "closing"]
    /\ chat' = [chat EXCEPT !.isLiveConnected = FALSE, !.isConnecting = FALSE,
                            !.isOpen = TRUE,
                            !.messages = chat.messages
                                \o <<"Connection Error: ...", SUPPORT_MSG>>]
    /\ lastDisc' = <<>>
    /\ UNCHANGED <<wire, env>>

\* [235-351] the promise returned by connect rejects before a socket exists, so
\* that no callback is called. sessionPromise is not awaited: the rejection
\* does not reach the catch block, and nothing else observes it.
ConnectRejects(k) ==
    /\ res[k].session = "connecting"
    /\ res' = [res EXCEPT ![k].session = "rejected"]
    /\ lastDisc' = <<>>
    /\ UNCHANGED <<chat, wire, env>>

\* onaudioprocess [253-259] of the capture pipeline built by attempt k: the node
\* delivers a block while its context runs, and the block is sent on the
\* session of that attempt once sessionPromise has resolved.
AudioProcess(k) ==
    /\ res[k].onopen = "done"
    /\ res[res[k].capture].inCtx = "running"
    /\ res[k].resolved
    /\ wire' = [wire EXCEPT !.mic = [session |-> res[k].session,
                                     connected |-> chat.isLiveConnected]]
    /\ lastDisc' = <<>>
    /\ UNCHANGED <<chat, res, env>>

----------------------------------------------------------------------------
(* ChatBot.tsx: onmessage                                                  *)

UpdatedResult(next) == [result |-> "Form updated. Next missing field is", next |-> next]
SubmittedResult == [result |-> "Submission triggered.", next |-> Undefined]
\* let responseResult = {}
EmptyResult == [result |-> "", next |-> Undefined]

\* The state one inbound message's tool calls work on.
DispatchState(c) ==
    [form |-> formData, sub |-> submit, lastOp |-> lastOp, caption |-> c.liveCaption,
     recv |-> <<>>, sent |-> <<>>]

Record(st, fc, id, form) ==
    Append(st.recv, [id |-> id, name |-> fc.name, args |-> fc.args, dataAfter |-> form])

\* A response put before the earlier ones (a faulty variant of Respond).
RespondAhead(st, fc, id, result) ==
    <<[id |-> id, name |-> fc.name, response |-> result]>> \o st.sent

Respond(st, fc, id, result) ==
    Append(st.sent, [id |-> id, name |-> fc.name, response |-> result])

\* A loop body that answers only the two known tools (a faulty variant of DispatchCall).
DispatchCallKnownOnly(st, c, fc, id) ==
    IF fc.name = "update_school_data" /\ c.onUpdateFormRef
    THEN LET form == handleVoiceUpdate(st.form, fc.args)
         IN  [st EXCEPT !.form = form,
                        !.lastOp = [op |-> "handleVoiceUpdate",
                                    args |-> Restrict(fc.args, LevelRuleKeys),
                                    n |-> st.lastOp.n + 1],
                        !.caption = <<>>,
                        !.recv = Record(st, fc, id, form),
                        !.sent = Respond(st, fc, id,
                            UpdatedResult(getNextMissingField(
                                Spread(c.currentDataRef, fc.args))))]
    ELSE IF fc.name = "submit_report" /\ c.onSubmitFormRef
    THEN [st EXCEPT !.sub = handleSubmit(st.sub, c.currentDataRef),
                    !.recv = Record(st, fc, id, st.form),
                    !.sent = Respond(st, fc, id, SubmittedResult)]
    ELSE [st EXCEPT !.recv = Record(st, fc, id, st.form)]

\* A loop body that takes every name but update_school_data for a request to
\* submit (a faulty variant of DispatchCall).
DispatchCallElseSubmits(st, c, fc, id) ==
    IF fc.name = "update_school_data" /\ c.onUpdateFormRef
    THEN LET form == handleVoiceUpdate(st.form, fc.args)
         IN  [st EXCEPT !.form = form,
                        !.lastOp = [op |-> "handleVoiceUpdate",
                                    args |-> Restrict(fc.args, LevelRuleKeys),
                                    n |-> st.lastOp.n + 1],
                        !.caption = <<>>,
                        !.recv = Record(st, fc, id, form),
                        !.sent = Respond(st, fc, id,
                            UpdatedResult(getNextMissingField(
                                Spread(c.currentDataRef, fc.args))))]
    ELSE IF c.onSubmitFormRef
    THEN [st EXCEPT !.sub = handleSubmit(st.sub, c.currentDataRef),
                    !.recv = Record(st, fc, id, st.form),
                    !.sent = Respond(st, fc, id, SubmittedResult)]
    ELSE [st EXCEPT !.recv = Record(st, fc, id, st.form),
                    !.sent = Respond(st, fc, id, EmptyResult)]

\* The body of the loop over message.toolCall.functionCalls [291-320], for the
\* call fc with identifier id, with the refs of component state c. The submit
\* callback in onSubmitFormRef closes over the record of the render that also
\* set currentDataRef.
DispatchCall(st, c, fc, id) ==
    IF fc.name = "update_school_data" /\ c.onUpdateFormRef
    THEN LET form == handleVoiceUpdate(st.form, fc.args)
         IN  [st EXCEPT !.form = form,
                        !.lastOp = [op |-> "handleVoiceUpdate",
                                    args |-> Restrict(fc.args, LevelRuleKeys),
                                    n |-> st.lastOp.n + 1],
                        !.caption = <<>>,
                        !.recv = Record(st, fc, id, form),
                        !.sent = Respond(st, fc, id,
                            UpdatedResult(getNextMissingField(
                                Spread(c.currentDataRef, fc.args))))]
    ELSE IF fc.name = "submit_report" /\ c.onSubmitFormRef
    THEN [st EXCEPT !.sub = handleSubmit(st.sub, c.currentDataRef),
                    !.recv = Record(st, fc, id, st.form),
                    !.sent = Respond(st, fc, id, SubmittedResult)]
    ELSE [st EXCEPT !.recv = Record(st, fc, id, st.form),
                    !.sent = Respond(st, fc, id, EmptyResult)]

RECURSIVE DispatchAll(_, _, _, _)
DispatchAll(st, c, calls, i) ==
    IF i > Len(calls) THEN st
    ELSE DispatchAll(DispatchCall(st, c, calls[i], i), c, calls, i + 1)

\* [265-270] the transcript fragment joins the caption, which restarts from "..."
\* once it has passed the limit.
WithTranscript(caption, present) ==
    IF present
    THEN (IF CaptionLen(caption) > CaptionLimit THEN <<"...">> ELSE caption) \o <<"fragment">>
    ELSE caption

Max(a, b) == IF a >= b THEN a ELSE b

\* Scheduling that forgets to advance the cursor by the chunk's duration (a
\* faulty variant of WithAudio).
WithAudioNoAdvance(c, r, duration) ==
    IF duration > 0 /\ c.audioContextRef # 0
    THEN LET a == c.audioContextRef
             start == Max(c.nextStartTimeRef, r[a].time)
         IN  [c EXCEPT !.sourcesRef = @ \cup {[ctx |-> a, start |-> start,
                                               duration |-> duration]},
                       !.nextStartTimeRef = start]
    ELSE c

\* [272-288] an audio chunk of the given duration is scheduled on the context in
\* audioContextRef, at the cursor or at the context's current time if that is later.
WithAudio(c, r, duration) ==
    IF duration > 0 /\ c.audioContextRef # 0
    THEN LET a == c.audioContextRef
             start == Max(c.nextStartTimeRef, r[a].time)
         IN  [c EXCEPT !.sourcesRef = @ \cup {[ctx |-> a, start |-> start,
                                               duration |-> duration]},
                       !.nextStartTimeRef = start + duration]
    ELSE c

\* source.start(nextStartTimeRef.current) [284], as the output context sees it:
\* the start time and duration of the chunk, with the context's current time and
\* the cursor as they were when the message arrived.
Scheduled(c, r, duration) ==
    IF duration > 0 /\ c.audioContextRef # 0
    THEN LET a == c.audioContextRef
         IN  [r EXCEPT ![a].played =
                 Append(@, [start    |-> Max(c.nextStartTimeRef, r[a].time),
                            duration |-> duration,
                            now      |-> r[a].time,
                            cursor   |-> c.nextStartTimeRef])]
    ELSE r

\* Tool calls the model may issue.
FullArgs == [k \in SchoolDataKeys |-> IF k = "level" THEN UPPER_PRIMARY ELSE SomeText]

LiveCalls ==
    { [name |-> "update_school_data", args |-> [k \in {"schoolName"} |-> SomeText]],
      [name |-> "update_school_data", args |-> FullArgs],
      [name |-> "submit_report", args |-> <<>>],
      [name |-> "unknown_tool", args |-> <<>>] }

CallSeqs == UNION { [1 .. n -> LiveCalls] : n \in 0 .. MaxCalls }

\* onmessage [264-322] of session k.
OnMessageBody(k, transcript, duration, calls) ==
    /\ res[k].session = "open"
    /\ \E c2 \in {WithAudio([chat EXCEPT !.liveCaption = WithTranscript(@, transcript)],
                             res, duration)} :
       \E st \in {DispatchAll(DispatchState(c2), c2, calls, 1)} :
           /\ st.lastOp.n <= MaxOps
           /\ Len(st.sub.inflight) <= MaxSubmits
           /\ chat' = [c2 EXCEPT !.liveCaption = st.caption]
           /\ formData' = st.form
           /\ submit' = st.sub
           /\ lastOp' = st.lastOp
           /\ wire' = [wire EXCEPT !.n = wire.n + 1, !.session = k,
                                 !.recv = st.recv, !.sent = st.sent]
    /\ res' = Scheduled(chat, res, duration)
    /\ lastDisc' = <<>>
    /\ UNCHANGED <<reads, env>>

OnMessage(k, transcript, duration, calls) ==
    /\ wire.n < MaxMsgs
    /\ OnMessageBody(k, transcript, duration, calls)

\* onmessage of session k up to its return, for a message that carries tool
\* calls only: each sendToolResponse is inside sessionPromise.then(...) [311-319],
\* so the loop queues the responses on the promise and sends none.
OnMessageReturns(k, calls) ==
    /\ wire.n < MaxMsgs
    /\ wire.queued = <<>>
    /\ res[k].session = "open"
    /\ \E st \in {DispatchAll(DispatchState(chat), chat, calls, 1)} :
           /\ st.lastOp.n <= MaxOps
           /\ Len(st.sub.inflight) <= MaxSubmits
           /\ chat' = [chat EXCEPT !.liveCaption = st.caption]
           /\ formData' = st.form
           /\ submit' = st.sub
           /\ lastOp' = st.lastOp
           /\ wire' = [wire EXCEPT !.n = wire.n + 1, !.session = k,
                                 !.recv = st.recv, !.sent = <<>>, !.queued = st.sent]
    /\ lastDisc' = <<>>
    /\ UNCHANGED <<res, reads, env>>

\* The reactions queued on the resolved sessionPromise run, in the order they
\* were queued, once the handler has returned and before any other event.
RunQueued ==
    /\ wire.queued # <<>>
    /\ wire' = [wire EXCEPT !.sent = wire.queued, !.queued = <<>>]
    /\ lastDisc' = <<>>
    /\ UNCHANGED <<chat, res, env>>

\* Time passes on a running output context (AudioContext.currentTime).
Tick(a) ==
    /\ res[a].outCtx = "running"
    /\ res[a].time < MaxTime
    /\ res' = [res EXCEPT ![a].time = @ + 1]
    /\ lastDisc' = <<>>
    /\ UNCHANGED <<chat, wire, env>>

----------------------------------------------------------------------------
(* services/api.ts: submitSchoolData                                       *)

\* What the network does with one request: whether the endpoint is configured,
\* how fetch settles, the status of the response, and what its body holds.
Statuses == {200, 201, 204, 301, 400, 401, 403, 404, 429, 500, 502, 503}

\* response.ok
Ok(status) == status \in 200 .. 299

Bodies ==
    { "success",          \* {"success": true, "rowId": ..., "message": ...}
      "failure",          \* {"success": false, "message": "Server Error: ..."}
      "failureGetRange",  \* {"success": false, "message": "... reading 'getRange' ..."}
      "failureNoMessage", \* {"success": false}
      "messageNotText",   \* {"success": false, "message": 5}
      "null",             \* null
      "number",           \* 5
      "html",             \* an error page
      "empty" }           \* the empty string

NoRequest == [configured |-> TRUE, net |-> "none", status |-> 0, body |-> "empty"]

Requests ==
    { [configured |-> FALSE, net |-> "none", status |-> 0, body |-> "empty"],
      [configured |-> TRUE, net |-> "networkError", status |-> 0, body |-> "empty"],
      [configured |-> TRUE, net |-> "abort", status |-> 0, body |-> "empty"] }
        \cup { [configured |-> TRUE, net |-> "bodyError", status |-> st, body |-> "empty"] :
                 st \in Statuses }
        \cup { [configured |-> TRUE, net |-> "response", status |-> st, body |-> b] :
                 st \in Statuses, b \in Bodies }

\* How a call ends: it returns a value or throws; success is "true", "false" or
\* Undefined (the value has no such field); the message is a text, followed by
\* the status where the code appends it. read and parsed tell whether the body
\* was read and given to JSON.parse.
Ended(outcome, success, text, status, read, parsed) ==
    [outcome |-> outcome, success |-> success, text |-> text, status |-> status,
     read |-> read, parsed |-> parsed]

NoResult == Ended("none", Undefined, "", 0, FALSE, FALSE)

InvalidResponseMsg == "Submission failed. The server returned an invalid response. ..."
NetworkErrorMsg == "Network error. Please check your internet connection."
TimedOutMsg == "Request timed out. File uploads might be taking too long."
ErrorStatusMsg == "Server returned error status: "
SheetMissingMsg == "Backend Error: The script could not find the sheet tab named 'Sheet1'. ..."

\* A body handed to response.json() with no inner try: a parse error leaves the
\* function (a faulty variant of ParseBody).
ParseBodyDirectly(in) ==
    CASE in.body = "success" ->
            Ended("returned", "true", "Data saved and files uploaded to Drive successfully.",
                  0, TRUE, TRUE)
      [] in.body = "failure" -> Ended("returned", "false", "Server Error: ...", 0, TRUE, TRUE)
      [] in.body = "failureGetRange" -> Ended("returned", "false", SheetMissingMsg, 0, TRUE, TRUE)
      [] in.body = "failureNoMessage" -> Ended("returned", "false", "", 0, TRUE, TRUE)
      [] in.body = "number" -> Ended("returned", Undefined, "", 0, TRUE, TRUE)
      [] in.body \in {"messageNotText", "null", "html", "empty"} ->
            Ended("thrown", Undefined, "SyntaxError", 0, TRUE, TRUE)

\* [61-78] the body is read as text and parsed inside the inner try.
ParseBody(in) ==
    CASE in.body = "success" ->
            Ended("returned", "true", "Data saved and files uploaded to Drive successfully.",
                  0, TRUE, TRUE)
      [] in.body = "failure" -> Ended("returned", "false", "Server Error: ...", 0, TRUE, TRUE)
      [] in.body = "failureGetRange" -> Ended("returned", "false", SheetMissingMsg, 0, TRUE, TRUE)
      [] in.body = "failureNoMessage" -> Ended("returned", "false", "", 0, TRUE, TRUE)
      [] in.body = "number" -> Ended("returned", Undefined, "", 0, TRUE, TRUE)
      \* result.message.includes is not a function; null has no property success;
      \* JSON.parse throws: each is caught by the inner catch
      [] in.body \in {"messageNotText", "null", "html", "empty"} ->
            Ended("returned", "false", InvalidResponseMsg, 0, TRUE, TRUE)

\* submitSchoolData that parses the body before it looks at the status (a faulty
\* variant of submitSchoolData).
submitSchoolDataParseFirst(in) ==
    IF ~in.configured
    THEN Ended("returned", "true", "Simulation Success: ...", 0, FALSE, FALSE)
    ELSE IF in.net = "abort" THEN Ended("returned", "false", TimedOutMsg, 0, FALSE, FALSE)
    ELSE IF in.net = "networkError" THEN Ended("returned", "false", NetworkErrorMsg, 0, FALSE, FALSE)
    ELSE IF in.net = "bodyError" THEN Ended("returned", "false", NetworkErrorMsg, 0, TRUE, FALSE)
    ELSE IF ParseBody(in).success # "true" /\ ~Ok(in.status)
    THEN Ended("returned", "false", ErrorStatusMsg, in.status, TRUE, TRUE)
    ELSE ParseBody(in)

\* submitSchoolData [16-93]
submitSchoolData(in) ==
    IF ~in.configured
    THEN Ended("returned", "true", "Simulation Success: ...", 0, FALSE, FALSE)
    \* [80-92] fetch rejected: the outer catch
    ELSE IF in.net = "abort" THEN Ended("returned", "false", TimedOutMsg, 0, FALSE, FALSE)
    ELSE IF in.net = "networkError" THEN Ended("returned", "false", NetworkErrorMsg, 0, FALSE, FALSE)
    \* [53-58]
    ELSE IF ~Ok(in.status) THEN Ended("returned", "false", ErrorStatusMsg, in.status, FALSE, FALSE)
    \* [61] response.text() rejects: the outer catch
    ELSE IF in.net = "bodyError" THEN Ended("returned", "false", NetworkErrorMsg, 0, TRUE, FALSE)
    ELSE ParseBody(in)

----------------------------------------------------------------------------
(* ChatBot.tsx: handleSendMessage, the typed conversation                  *)

\* Calls of handleSendMessage in one run.
MaxSends == 2

\* What the input can hold, and the image chosen with handleFileSelect.
InputValues == {"", " ", "hi"}
SomeImage == "data:image/png;base64,x"

\* inputValue.trim()
Trim(v) == IF v = " " THEN "" ELSE v

\* messages holds the text of each turn. The user's turn [411] is written with
\* its role and with the image attached to it, if any.
UserTurn(text, image) ==
    CASE text = "" /\ image # NoImage -> "user: (image)"
      [] text # "" /\ image # NoImage -> "user: hi (image)"
      [] OTHER                        -> "user: hi"

\* A guard that forgets the request in flight (a faulty variant of SendRefused).
SendRefusedWhenEmpty(t) ==
    Trim(t.inputValue) = "" /\ t.selectedImage = NoImage

\* [402] (!inputValue.trim() && !selectedImage) || isLoading
SendRefused(t) ==
    (Trim(t.inputValue) = "" /\ t.selectedImage = NoImage) \/ t.isLoading

\* The errors handleSendMessage can catch: the one it throws itself [415] and
\* the rejections of generateContent.
ChatKeyMissingError == [name |-> "Error", mentionsKey |-> TRUE, message |-> "API Key is missing."]
FetchError == [name |-> "TypeError", mentionsKey |-> FALSE, message |-> "Failed to fetch"]
KeyInvalidError ==
    [name |-> "ApiError", mentionsKey |-> TRUE, message |-> "API Key not valid."]
ChatRejections == {FetchError, KeyInvalidError}

\* [479-480] the apology line for a caught error.
errorMsgOf(e) == IF e.message # "" /\ e.mentionsKey THEN "API Key Error." ELSE "Connection error."

\* A catch block that leaves out the support line (a faulty variant of CatchSend).
CatchSendApologyOnly(msgs, e) == Append(msgs, errorMsgOf(e))

\* The catch block [478-485].
CatchSend(msgs, e) == msgs \o <<errorMsgOf(e), SUPPORT_MSG>>

\* What generateContent does with a request: it answers, it rejects, or neither
\* ever happens. No timer runs beside the call [440-447].
ChatNets == {"answers", "rejects", "silent"}

\* handleSendMessage [400-447] up to the await of generateContent, and through
\* catch and finally when the API key is missing.
SendMessage ==
    /\ turn.n < MaxSends
    /\ IF SendRefused(turn)
       THEN /\ turn' = [turn EXCEPT !.n = @ + 1, !.last = "ignored"]
            /\ UNCHANGED chat
       ELSE LET userTurn == UserTurn(Trim(turn.inputValue), turn.selectedImage)
                cleared == [turn EXCEPT !.inputValue = "", !.selectedImage = NoImage,
                                        !.n = @ + 1]
            IN  IF ~env.apiKey
                THEN /\ chat' = [chat EXCEPT !.messages =
                                    CatchSend(Append(@, userTurn), ChatKeyMissingError)]
                     /\ turn' = [cleared EXCEPT !.isLoading = FALSE, !.last = "threw"]
                ELSE /\ chat' = [chat EXCEPT !.messages = Append(@, userTurn)]
                     /\ \E net \in ChatNets :
                            turn' = [cleared EXCEPT !.isLoading = TRUE,
                                                    !.inflight = Append(@, [net |-> net]),
                                                    !.last = "sent"]
    /\ UNCHANGED <<formVars, res, wire, lastDisc, env, nmfVars, twin, apiIn, apiOut, merge>>

\* onChange of the text input [ChatBot.tsx, the input element].
TypeText(v) ==
    /\ turn.inputValue # v
    /\ turn' = [turn EXCEPT !.inputValue = v]
    /\ UNCHANGED <<formVars, liveVars, nmfVars, twin, apiIn, apiOut, merge>>

\* handleFileSelect [390-398] with an image file, up to the end of its read, and
\* the button that removes the chosen image.
SelectImage(image) ==
    /\ turn.selectedImage # image
    /\ turn' = [turn EXCEPT !.selectedImage = image]
    /\ UNCHANGED <<formVars, liveVars, nmfVars, twin, apiIn, apiOut, merge>>

\* `Updated fields: ${Object.keys(fc.args).join(', ')}`
UpdatedFieldsMsg(args) ==
    IF DOMAIN args = {"level"} THEN "Updated fields: level"
                               ELSE "Updated fields: schoolName, ..."
SubmittingMsg == "Submitting report..."

\* Tool invocations a response may return: two updates whose order shows in the
\* record, and the request to submit.
ChatCalls ==
    { [name |-> "update_school_data", args |-> FullArgs],
      [name |-> "update_school_data", args |-> [k \in {"level"} |-> PRIMARY]],
      [name |-> "submit_report", args |-> <<>>] }
ChatCallSeqs == UNION { [1 .. n -> ChatCalls] : n \in 0 .. MaxCalls }

\* response.text: none, a plain reply, a reply ending with the support marker.
TaggedReply == "advice [CONTACT_SUPPORT]"
ReplyTexts == {Undefined, "reply", TaggedReply}
Responses == [calls : ChatCallSeqs, text : ReplyTexts]

\* The state one response's tool invocations work on.
ChatState(c) ==
    [form |-> formData, sub |-> submit, lastOp |-> lastOp, messages |-> c.messages]

\* The body of the loop over response.functionCalls [452-462], with the refs of
\* component state c.
ChatCall(st, c, fc) ==
    IF fc.name = "update_school_data"
    THEN IF c.onUpdateFormRef
         THEN [st EXCEPT !.form = handleVoiceUpdate(st.form, fc.args),
                         !.lastOp = [op |-> "handleVoiceUpdate",
                                     args |-> Restrict(fc.args, LevelRuleKeys),
                                     n |-> st.lastOp.n + 1],
                         !.messages = Append(@, UpdatedFieldsMsg(fc.args))]
         ELSE st
    ELSE IF fc.name = "submit_report"
    THEN IF c.onSubmitFormRef
         THEN [st EXCEPT !.sub = handleSubmit(st.sub, c.currentDataRef),
                         !.messages = Append(@, SubmittingMsg)]
         ELSE st
    ELSE st

\* A loop that takes the invocations last to first (a faulty variant of ChatCallAll).
RECURSIVE ChatCallAllBackwards(_, _, _, _)
ChatCallAllBackwards(st, c, calls, i) ==
    IF i > Len(calls) THEN st
    ELSE ChatCall(ChatCallAllBackwards(st, c, calls, i + 1), c, calls[i])

\* for (const fc of toolCalls) [451-463]
RECURSIVE ChatCallAll(_, _, _, _)
ChatCallAll(st, c, calls, i) ==
    IF i > Len(calls) THEN st
    ELSE ChatCallAll(ChatCall(st, c, calls[i]), c, calls, i + 1)

\* [466-476] the turns appended for the response's text.
ReplyTurns(text) ==
    CASE text = Undefined   -> <<"Processed.">>
      [] text = TaggedReply -> <<"advice", SUPPORT_MSG>>
      [] OTHER              -> <<text>>

Without(seq, i) == SubSeq(seq, 1, i - 1) \o SubSeq(seq, i + 1, Len(seq))

\* generateContent resolves with resp [449-476], then finally [486-488].
Answered(resp) ==
    \E i \in DOMAIN turn.inflight :
        /\ turn.inflight[i].net = "answers"
        /\ \E st \in {ChatCallAll(ChatState(chat), chat, resp.calls, 1)} :
               /\ st.lastOp.n <= MaxOps
               /\ Len(st.sub.inflight) <= MaxSubmits + 1   \* one beyond the form's own
               /\ chat' = [chat EXCEPT !.messages = st.messages \o ReplyTurns(resp.text)]
               /\ formData' = st.form
               /\ submit' = st.sub
               /\ lastOp' = st.lastOp
        /\ turn' = [turn EXCEPT !.isLoading = FALSE, !.inflight = Without(@, i),
                                !.answer = resp, !.last = "answered"]
        /\ UNCHANGED <<reads, res, wire, lastDisc, env, nmfVars, twin, apiIn, apiOut, merge>>

\* generateContent rejects with e: catch [478-485], then finally [486-488].
Rejected(e) ==
    \E i \in DOMAIN turn.inflight :
        /\ turn.inflight[i].net = "rejects"
        /\ chat' = [chat EXCEPT !.messages = CatchSend(@, e)]
        /\ turn' = [turn EXCEPT !.isLoading = FALSE, !.inflight = Without(@, i),
                                !.last = "rejected"]
        /\ UNCHANGED <<formVars, res, wire, lastDisc, env, nmfVars, twin, apiIn, apiOut, merge>>

----------------------------------------------------------------------------
(* Specifications                                                          *)

formFrame == UNCHANGED <<formVars, pureVars>>
liveFrame == UNCHANGED <<liveVars, pureVars>>

\* The variables of the specifications of single functions, when not in use.
MergeIdle == merge = [start |-> UndefinedData, applied |-> <<>>]
SubmitIdle == apiIn = NoRequest /\ apiOut = NoResult /\ MergeIdle /\ TurnInit
NmfIdle == nmfIn = UndefinedData /\ nmfOut = NotCalled /\ twin = UndefinedData /\ SubmitIdle

\* SpecNMF: getNextMissingField applied once to any record, or to undefined.
InitNMF ==
    /\ FormInit
    /\ env = UsualEnv
    /\ LiveInit
    /\ nmfIn \in SchoolDataValues \cup {UndefinedData}
    /\ nmfOut = NotCalled
    /\ twin = UndefinedData
    /\ SubmitIdle

CallNMF ==
    /\ nmfOut = NotCalled
    /\ nmfOut' = getNextMissingField(nmfIn)
    /\ UNCHANGED <<formVars, liveVars, nmfIn, twin, apiIn, apiOut, merge, turn>>

SpecNMF == InitNMF /\ [][CallNMF]_vars

\* SpecLevel: the level of any record set to any value, through the form's
\* handler on formData and through the tool's handler on its twin.
InitLevel ==
    /\ formData \in SchoolDataValues
    /\ twin = formData
    /\ reads = {}
    /\ submit = [isSubmitting |-> FALSE, inflight |-> <<>>]
    /\ lastOp = [op |-> "none", args |-> <<>>, n |-> 0]
    /\ env = UsualEnv
    /\ LiveInit
    /\ nmfIn = UndefinedData /\ nmfOut = NotCalled
    /\ SubmitIdle

SetLevelBothWays ==
    \E v \in LevelValues :
        /\ lastOp.n < MaxOps
        /\ formData' = handleChange(formData, "level", v)
        /\ twin' = handleVoiceUpdate(twin, [k \in {"level"} |-> v])
        /\ lastOp' = [op |-> "setLevel", args |-> [k \in {"level"} |-> v], n |-> lastOp.n + 1]
        /\ UNCHANGED <<reads, submit, liveVars, nmfVars, apiIn, apiOut, merge, turn>>

SpecLevel == InitLevel /\ [][SetLevelBothWays]_vars

\* SpecSubmit: submitSchoolData called once, the network answering in any way.
InitSubmit ==
    /\ FormInit
    /\ env = UsualEnv
    /\ LiveInit
    /\ nmfIn = UndefinedData /\ nmfOut = NotCalled /\ twin = UndefinedData
    /\ apiIn \in Requests
    /\ apiOut = NoResult
    /\ MergeIdle
    /\ TurnInit

CallSubmit ==
    /\ apiOut = NoResult
    /\ apiOut' = submitSchoolData(apiIn)
    /\ UNCHANGED <<formVars, liveVars, nmfVars, twin, apiIn, merge, turn>>

SpecSubmit == InitSubmit /\ [][CallSubmit]_vars

\* SpecMerge: one manual writer (an input, the select, or a FileInput) and one
\* update_school_data call applied to a record, in either order. The updaters
\* given to setFormData are functions of the previous state, so React applies
\* each to the result of the one before.
MergeStarts ==
    { r \in SchoolDataValues :
        \A k \in SchoolDataKeys \ {"schoolName", "level", "registrationCertificateUpper"} :
            r[k] = "" }

ManualWriters ==
    { [by |-> "handleChange", name |-> e[1], value |-> e[2], updates |-> <<>>] :
        e \in ManualEdits }
    \cup { [by |-> "handleFileChange", name |-> k, value |-> v, updates |-> <<>>] :
             k \in FileKeys, v \in {"", SomeText} }

ToolWriters ==
    { [by |-> "handleVoiceUpdate", name |-> "", value |-> "", updates |-> u] :
        u \in SingleUpdates \cup LevelUpdates }

ApplyWriter(prev, w) ==
    CASE w.by = "handleChange" -> handleChange(prev, w.name, w.value)
      [] w.by = "handleFileChange" -> handleFileChange(prev, w.name, w.value)
      [] w.by = "handleVoiceUpdate" -> handleVoiceUpdate(prev, w.updates)

InitMerge ==
    /\ formData \in MergeStarts
    /\ merge = [start |-> formData, applied |-> <<>>]
    /\ reads = {}
    /\ submit = [isSubmitting |-> FALSE, inflight |-> <<>>]
    /\ lastOp = [op |-> "none", args |-> <<>>, n |-> 0]
    /\ env = UsualEnv
    /\ LiveInit
    /\ nmfIn = UndefinedData /\ nmfOut = NotCalled /\ twin = UndefinedData
    /\ apiIn = NoRequest /\ apiOut = NoResult
    /\ TurnInit

Write(w) ==
    /\ formData' = ApplyWriter(formData, w)
    /\ merge' = [merge EXCEPT !.applied = Append(@, w)]
    /\ UNCHANGED <<reads, submit, lastOp, liveVars, nmfVars, twin, apiIn, apiOut, turn>>

MergeManual ==
    /\ \A i \in 1 .. Len(merge.applied) : merge.applied[i].by = "handleVoiceUpdate"
    /\ Len(merge.applied) < 2
    /\ \E w \in ManualWriters : Write(w)

MergeTool ==
    /\ \A i \in 1 .. Len(merge.applied) : merge.applied[i].by # "handleVoiceUpdate"
    /\ Len(merge.applied) < 2
    /\ \E w \in ToolWriters : Write(w)

SpecMerge == InitMerge /\ [][MergeManual \/ MergeTool]_vars

\* SpecReset: submissions of a record that may be valid or not, the network
\* answering in any way, with edits while the request is in flight.
ResetStarts ==
    { r \in SchoolDataValues :
        \A k \in SchoolDataKeys \ {"schoolName", "level", "registrationCertificateUpper"} :
            r[k] = SomeText }

InitReset ==
    /\ formData \in ResetStarts
    /\ reads = {}
    /\ submit = [isSubmitting |-> FALSE, inflight |-> <<>>]
    /\ lastOp = [op |-> "none", args |-> <<>>, n |-> 0]
    /\ env = UsualEnv
    /\ LiveInit
    /\ nmfIn = UndefinedData /\ nmfOut = NotCalled /\ twin = UndefinedData
    /\ apiIn = NoRequest /\ apiOut = NoResult
    /\ MergeIdle
    /\ TurnInit

ResetEdit ==
    \E v \in {"", SomeText} :
        /\ Change("schoolName", v)
        /\ UNCHANGED <<liveVars, pureVars>>

ResetSubmitInvalid == SubmitInvalid /\ UNCHANGED <<liveVars, pureVars>>

\* A valid record is submitted: what the network will do with the request is
\* settled from here on.
ResetSubmitClick ==
    /\ SubmitClick
    /\ apiIn' \in Requests
    /\ apiOut' = NoResult
    /\ UNCHANGED <<liveVars, nmfVars, twin, merge, turn>>

\* await submitSchoolData(dataToSubmit) ends [158-173].
ResetSubmitDone ==
    \E r \in {submitSchoolData(apiIn)} :
        /\ apiOut' = r
        /\ SubmitDone(r.success = "true")
        /\ UNCHANGED <<liveVars, nmfVars, twin, apiIn, merge, turn>>

NextReset ==
    \/ ResetEdit
    \/ ResetSubmitInvalid
    \/ ResetSubmitClick
    \/ ResetSubmitDone

SpecReset == InitReset /\ [][NextReset]_vars

\* SpecForm: the form record under manual edits, file inputs and tool updates.
InitForm ==
    /\ FormInit
    /\ env = UsualEnv
    /\ LiveInit
    /\ NmfIdle

FormEdit == \E e \in ManualEdits : Change(e[1], e[2]) /\ liveFrame
FormChooseFile == \E name \in FileKeys : ChooseFile(name) /\ liveFrame
FormReadEnd == \E name \in FileKeys : ReadEnd(name) /\ liveFrame
FormClearFile == \E name \in FileKeys : ClearFile(name) /\ liveFrame
FormToolUpdate == \E u \in FormUpdates : VoiceUpdate(u) /\ liveFrame

NextForm ==
    \/ FormEdit
    \/ FormChooseFile
    \/ FormReadEnd
    \/ FormClearFile
    \/ FormToolUpdate

SpecForm == InitForm /\ [][NextForm]_vars

\* A manual edit while the ChatBot is mounted. A change event is a discrete
\* event: React renders and runs the effect before it returns, so the refs of
\* the ChatBot hold the new record at once.
LiveEdits == { <<"schoolName", SomeText>> }

LiveEdit ==
    \E e \in LiveEdits :
        /\ Change(e[1], e[2])
        /\ chat' = [chat EXCEPT !.currentDataRef = IF env.props THEN formData' ELSE @]
        /\ UNCHANGED <<res, wire, lastDisc, env, pureVars>>

LiveSubmitClick == SubmitClick /\ liveFrame
LiveSubmitDone == \E success \in BOOLEAN : SubmitDone(success) /\ liveFrame
LiveSyncRefs == SyncRefs /\ formFrame
LiveStartWhileConnected == StartWhileConnected /\ formFrame
LiveStartWhileConnecting == StartWhileConnecting /\ formFrame
LiveStartNoKey == StartNoKey /\ formFrame
LiveStartNoMediaDevices == StartNoMediaDevices /\ formFrame
LiveStartAwaitMedia == StartAwaitMedia /\ formFrame
LiveMediaDenied == \E k \in Attempts : MediaDenied(k) /\ formFrame
LiveMediaGranted ==
    \E k \in Attempts, o \in {"running", "suspended"} : MediaGranted(k, o) /\ formFrame
LiveStopClick == StopClick /\ formFrame
LiveOnOpen == \E k \in Attempts : OnOpen(k) /\ formFrame
LiveResumeSettles == \E k \in Attempts, rejects \in BOOLEAN : ResumeSettles(k, rejects) /\ formFrame
LiveOnClose == \E k \in Attempts : OnClose(k) /\ formFrame
LiveOnError == \E k \in Attempts : OnError(k) /\ formFrame

\* SpecTools: one live session that stays open, and everything its inbound
\* messages can carry.
InitTools ==
    /\ FormInit
    /\ env \in {e \in Environments : e.apiKey /\ e.mediaDevices}
    /\ LiveInit
    /\ NmfIdle

ToolsOnMessage ==
    \E k \in Attempts, calls \in CallSeqs :
        OnMessage(k, FALSE, 0, calls) /\ UNCHANGED pureVars

NextTools ==
    \/ LiveEdit
    \/ LiveSubmitClick
    \/ LiveSubmitDone
    \/ LiveSyncRefs
    \/ LiveStartAwaitMedia
    \/ LiveMediaGranted
    \/ LiveOnOpen
    \/ LiveResumeSettles
    \/ ToolsOnMessage

SpecTools == InitTools /\ [][NextTools]_vars

\* SpecAudio: playback scheduling. Sessions are started and stopped, audio chunks
\* of every duration arrive, and the clocks of the output contexts run.
AudioOnMessage ==
    \E k \in Attempts, d \in 1 .. MaxDuration :
        /\ wire.n < MaxChunks
        /\ OnMessageBody(k, FALSE, d, <<>>)
        /\ UNCHANGED pureVars

AudioTick == \E a \in Attempts : Tick(a) /\ formFrame

\* The output context starts running (the session was started by a click).
AudioMediaGranted == \E k \in Attempts : MediaGranted(k, "running") /\ formFrame

InitAudio ==
    /\ FormInit
    /\ env = UsualEnv
    /\ LiveInit
    /\ NmfIdle

NextAudio ==
    \/ LiveStartAwaitMedia
    \/ AudioMediaGranted
    \/ LiveOnOpen
    \/ LiveStopClick
    \/ AudioOnMessage
    \/ AudioTick

SpecAudio == InitAudio /\ [][NextAudio]_vars

\* SpecCapture: the life cycle of live sessions with the microphone blocks of
\* the capture pipeline.
LiveAudioProcess == \E k \in Attempts : AudioProcess(k) /\ formFrame

NextCapture ==
    \/ LiveStartAwaitMedia
    \/ LiveMediaGranted
    \/ LiveStopClick
    \/ LiveOnOpen
    \/ LiveResumeSettles
    \/ LiveOnClose
    \/ LiveOnError
    \/ LiveAudioProcess

SpecCapture == InitAudio /\ [][NextCapture]_vars

\* SpecReplies: one open session; the handler of a message with tool calls, and
\* the sending of the responses it has queued.
RepliesOnMessage ==
    \E k \in Attempts, calls \in CallSeqs : OnMessageReturns(k, calls) /\ UNCHANGED pureVars
RepliesRunQueued == RunQueued /\ formFrame

NextReplies ==
    \/ LiveStartAwaitMedia
    \/ LiveMediaGranted
    \/ LiveOnOpen
    \/ RepliesOnMessage
    \/ RepliesRunQueued

SpecReplies == InitTools /\ [][NextReplies]_vars

\* SpecTeardown: sessions stopped by the user, where a release may throw.
TeardownStopClick == \E failAt \in {0} \cup Releases : StopClickThrowing(failAt) /\ formFrame

NextTeardown ==
    \/ LiveStartAwaitMedia
    \/ LiveMediaGranted
    \/ LiveOnOpen
    \/ LiveResumeSettles
    \/ LiveOnClose
    \/ TeardownStopClick

SpecTeardown == InitAudio /\ [][NextTeardown]_vars

\* SpecConnect: connection attempts whose every pending event comes about: the
\* answer of getUserMedia, the outcome of connect, the close event of a socket
\* that is closing, the settling of resume(). The user's clicks are not forced.
LiveConnectRejects == \E k \in Attempts : ConnectRejects(k) /\ formFrame
MediaSettles == LiveMediaGranted \/ LiveMediaDenied
ConnectSettles == LiveOnOpen \/ LiveOnError \/ LiveConnectRejects

NextConnect ==
    \/ LiveStartAwaitMedia
    \/ LiveStartWhileConnected
    \/ LiveStopClick
    \/ MediaSettles
    \/ ConnectSettles
    \/ LiveResumeSettles
    \/ LiveOnClose

SpecConnect ==
    /\ InitAudio
    /\ [][NextConnect]_vars
    /\ WF_vars(MediaSettles)
    /\ WF_vars(ConnectSettles)
    /\ WF_vars(LiveResumeSettles)
    /\ WF_vars(LiveOnClose)

\* SpecChat: the typed conversation and the form its tool invocations work on,
\* the model service answering, rejecting or staying silent.
InitChat ==
    /\ FormInit
    /\ env \in {e \in Environments : e.mediaDevices}
    /\ LiveInit
    /\ nmfIn = UndefinedData /\ nmfOut = NotCalled /\ twin = UndefinedData
    /\ apiIn = NoRequest /\ apiOut = NoResult
    /\ MergeIdle
    /\ TurnInit

ChatType == \E v \in InputValues : TypeText(v)
ChatTypeText == TypeText("hi")
ChatSelectImage == \E image \in {NoImage, SomeImage} : SelectImage(image)
\* The responses of SpecChat: text alone in each of its shapes, or tool
\* invocations with a plain reply.
ChatResponses == {r \in Responses : r.calls = <<>> \/ r.text = "reply"}
ChatAnswered == \E resp \in ChatResponses : Answered(resp)
ChatRejected == \E e \in ChatRejections : Rejected(e)

NextChat ==
    \/ ChatTypeText
    \/ SendMessage
    \/ ChatAnswered
    \/ ChatRejected
    \/ LiveSubmitDone
    \/ LiveSyncRefs

SpecChat == InitChat /\ [][NextChat]_vars

\* SpecLoading: the typed conversation alone, its responses carrying text only,
\* where every request that the service answers or rejects does settle.
LoadingAnswered == \E resp \in {r \in Responses : r.calls = <<>>} : Answered(resp)
LoadingSettles == LoadingAnswered \/ ChatRejected
NextLoading == ChatType \/ ChatSelectImage \/ SendMessage \/ LoadingSettles

SpecLoading == InitChat /\ [][NextLoading]_vars /\ WF_vars(LoadingSettles)

\* Spec: the life cycle of live sessions (start, stop, and the callbacks of every
\* connection in any order), with inbound messages.
Init ==
    /\ FormInit
    /\ env \in {e \in Environments : e.props}
    /\ LiveInit
    /\ NmfIdle

\* Inbound messages of the life cycle: one server message carrying both an audio
\* chunk and a transcript fragment, so that onmessage takes both of its branches.
LiveOnMessage ==
    \E k \in Attempts :
        OnMessage(k, TRUE, MaxDuration, <<>>) /\ UNCHANGED pureVars

Next ==
    \/ LiveStartWhileConnected
    \/ LiveStartWhileConnecting
    \/ LiveStartNoKey
    \/ LiveStartNoMediaDevices
    \/ LiveStartAwaitMedia
    \/ LiveMediaDenied
    \/ LiveMediaGranted
    \/ LiveStopClick
    \/ LiveOnOpen
    \/ LiveResumeSettles
    \/ LiveOnClose
    \/ LiveOnError
    \/ LiveOnMessage

Spec == Init /\ [][Next]_vars

----------------------------------------------------------------------------
(* Properties of getNextMissingField (SpecNMF)                             *)

FieldLabels ==
    { INTERVIEW_ORDER[i].label : i \in 1 .. Len(INTERVIEW_ORDER) }
        \cup {SchoolPictureLabel, PrincipalPictureLabel, PrimaryPdfLabel, UpperPdfLabel}

\* C1: getNextMissingField is total. For every record (each field empty or filled,
\* every level value) and for an undefined record, the value it returns is one of
\* the fixed field labels or the ready sentinel, never an undefined result.
NextMissingFieldIsTotal ==
    nmfOut # NotCalled => nmfOut \in FieldLabels \cup {ReadyLabel}

\* The all-filled record has been given and the ready sentinel came back.
NextMissingFieldIsTotalWitness ==
    /\ nmfIn # UndefinedData
    /\ \A k \in SchoolDataKeys : nmfIn[k] # ""
    /\ nmfOut = ReadyLabel

\* The order in which the fields are asked for, and whether one is missing.
TextOrder ==
    <<"schoolName", "udiseCode", "block", "district", "level",
      "principalName", "societyTrustName", "phone", "email">>

Missing(data, key) == Get(data, key) \in {Undefined, Null, ""}

LabelOf(key) ==
    INTERVIEW_ORDER[CHOOSE i \in 1 .. Len(INTERVIEW_ORDER) : INTERVIEW_ORDER[i].key = key].label

MissingTexts(data) == { i \in 1 .. Len(TextOrder) : Missing(data, TextOrder[i]) }

NoneMissing(data) ==
    /\ MissingTexts(data) = {}
    /\ ~Missing(data, "schoolPicture")
    /\ ~Missing(data, "principalPicture")
    /\ ~Missing(data, "registrationCertificatePrimary")
    /\ Get(data, "level") = UPPER_PRIMARY => ~Missing(data, "registrationCertificateUpper")

ExpectedNextMissing(data) ==
    IF MissingTexts(data) # {}
    THEN LabelOf(TextOrder[CHOOSE i \in MissingTexts(data) :
                               \A j \in MissingTexts(data) : i <= j])
    ELSE IF Missing(data, "schoolPicture") THEN SchoolPictureLabel
    ELSE IF Missing(data, "principalPicture") THEN PrincipalPictureLabel
    ELSE IF Missing(data, "registrationCertificatePrimary") THEN PrimaryPdfLabel
    ELSE IF Get(data, "level") = UPPER_PRIMARY /\ Missing(data, "registrationCertificateUpper")
         THEN UpperPdfLabel
    ELSE ReadyLabel

\* C2: getNextMissingField returns the label of the first empty text field in
\* interview order; if none is empty, the label of the first empty attachment in
\* the order school picture, principal picture, primary certificate and, only when
\* the level is Upper Primary (1-8), upper certificate; and it returns the ready
\* sentinel exactly when none of these is missing.
NextMissingFieldIsFirstMissing ==
    nmfOut # NotCalled =>
        /\ nmfOut = ExpectedNextMissing(nmfIn)
        /\ nmfOut = ReadyLabel <=> NoneMissing(nmfIn)

\* A record whose level is not Upper Primary and whose only empty field is the
\* upper certificate: the result is the ready sentinel.
NextMissingFieldIsFirstMissingWitness ==
    /\ nmfIn # UndefinedData
    /\ nmfIn["level"] = PRIMARY
    /\ nmfIn["registrationCertificateUpper"] = ""
    /\ \A k \in SchoolDataKeys \ {"registrationCertificateUpper"} : nmfIn[k] # ""
    /\ nmfOut = ReadyLabel

----------------------------------------------------------------------------
(* Properties of the form record (SpecForm)                                *)

\* The last mutation was an edit or a tool update that set the level to Primary.
LevelSetToPrimary ==
    /\ lastOp.op \in {"handleChange", "handleVoiceUpdate"}
    /\ Get(lastOp.args, "level") = PRIMARY

\* C3: after an update that sets the level to Primary (1-5) is applied, by
\* handleChange or by handleVoiceUpdate, the upper certificate is empty in the
\* resulting record, whatever it held before and also when the same update
\* carries a value for it, and getNextMissingField of the resulting record is not
\* the upper certificate's label.
PrimaryClearsUpperCertificate ==
    LevelSetToPrimary =>
        /\ formData["registrationCertificateUpper"] = ""
        /\ getNextMissingField(formData) # UpperPdfLabel

\* A tool update that set the level to Primary and carried a certificate value.
PrimaryClearsUpperCertificateWitness ==
    /\ lastOp.op = "handleVoiceUpdate"
    /\ Get(lastOp.args, "level") = PRIMARY
    /\ Get(lastOp.args, "registrationCertificateUpper") = SomeText
    /\ formData["registrationCertificateUpper"] = ""

\* C4: in every reachable state of the form record, the upper certificate is
\* empty whenever the level is Primary (1-5).
UpperCertificateEmptyWhenPrimary ==
    formData["level"] = PRIMARY => formData["registrationCertificateUpper"] = ""

----------------------------------------------------------------------------
(* Properties of the tool calls of a live session (SpecTools)              *)

\* C5: every tool invocation received in an inbound message of the live session
\* results in exactly one sendToolResponse carrying its id and name, never zero
\* and never two, for update_school_data, submit_report and unrecognized names
\* alike, also when the update or submit callback is absent.
ExactlyOneToolResponse ==
    /\ Len(wire.sent) = Len(wire.recv)
    /\ \A i \in 1 .. Len(wire.recv) :
          Cardinality({ j \in 1 .. Len(wire.sent) :
                          /\ wire.sent[j].id = wire.recv[i].id
                          /\ wire.sent[j].name = wire.recv[i].name }) = 1

\* A message with an update call and an unrecognized call reached a ChatBot that
\* was given no callbacks, and two responses went out.
ExactlyOneToolResponseWitness ==
    /\ ~env.props
    /\ \E i \in 1 .. Len(wire.recv) : wire.recv[i].name = "update_school_data"
    /\ \E i \in 1 .. Len(wire.recv) : wire.recv[i].name = "unknown_tool"
    /\ Len(wire.sent) = 2

\* C6: the next missing field named in the result of a live update_school_data
\* invocation is getNextMissingField of the record that results from applying
\* every mutation up to and including that invocation.
NextFieldNamedIsCurrent ==
    \A i \in 1 .. Len(wire.sent) :
        wire.sent[i].response.result = UpdatedResult(Undefined).result =>
            wire.sent[i].response.next = getNextMissingField(wire.recv[i].dataAfter)

----------------------------------------------------------------------------
(* Properties of the life cycle of live sessions (Spec)                    *)

LiveStreams == { k \in Attempts : res[k].stream = "live" }
LiveConnections == { k \in Attempts : res[k].session \in {"connecting", "open"} }
OpenContexts ==
    { k \in Attempts : res[k].inCtx = "running" \/ res[k].outCtx \in {"running", "suspended"} }

Idle(c) == ~c.isConnecting /\ ~c.isLiveConnected

NoHandles(c) ==
    /\ c.mediaStreamRef = 0
    /\ c.sessionRef = 0
    /\ c.audioContextRef = 0
    /\ c.inputAudioContextRef = 0

\* C7: at no point are two live sessions active at once: at most one microphone
\* stream and at most one network session are held or being connected.
AtMostOneLiveSession ==
    /\ Cardinality(LiveStreams) <= 1
    /\ Cardinality(LiveConnections) <= 1

\* startLiveSession was invoked in the last step while a session was connected.
StartedWhileConnected == lastDisc # <<>> /\ lastDisc[1].by = "start"

\* What the refs held when the teardown began has been released: the tracks
\* stopped, both contexts closed, the network session closed or its close
\* registered on the pending promise.
Released(pre) ==
    /\ pre.mediaStreamRef # 0 => res[pre.mediaStreamRef].stream = "stopped"
    /\ pre.audioContextRef # 0 => res[pre.audioContextRef].outCtx = "closed"
    /\ pre.inputAudioContextRef # 0 => res[pre.inputAudioContextRef].inCtx = "closed"
    /\ pre.sessionRef # 0 =>
          \/ res[pre.sessionRef].session \in {"closing", "closed"}
          \/ res[pre.sessionRef].closeAsked

\* C8 as stated: after startLiveSession is invoked while a live session is open,
\* exactly one live session is active, and the previous session's microphone
\* stream, network session and audio contexts have been released.
StartWhileConnectedLeavesOneSession ==
    StartedWhileConnected =>
        /\ Cardinality(LiveStreams \cup LiveConnections) = 1
        /\ Released(lastDisc[1].pre)

\* C8: after startLiveSession is invoked while a live session is connected, the
\* component is idle with its four handles cleared, and the microphone stream,
\* network session and audio contexts that the handles referred to have been
\* released.
StartWhileConnectedTearsDown ==
    StartedWhileConnected =>
        /\ Idle(chat)
        /\ NoHandles(chat)
        /\ Released(lastDisc[1].pre)

\* The toggle found a live microphone stream and an open session in the refs,
\* released them, and no session is active afterwards.
StartWhileConnectedTearsDownWitness ==
    /\ StartedWhileConnected
    /\ LiveStreams \cup LiveConnections = {}
    /\ lastDisc[1].pre.mediaStreamRef # 0
    /\ lastDisc[1].pre.sessionRef # 0
    /\ res[lastDisc[1].pre.mediaStreamRef].stream = "stopped"
    /\ res[lastDisc[1].pre.sessionRef].session = "closing"

\* disconnectLiveSession ran in the last step, from a component state that was
\* idle and held no handles.
TornDownAtIdle == lastDisc # <<>> /\ Idle(lastDisc[1].pre) /\ NoHandles(lastDisc[1].pre)

\* C9 as stated: disconnectLiveSession invoked when already idle changes no state
\* (flags, caption, handles, playback cursor, message log).
TeardownAtIdleChangesNothing ==
    TornDownAtIdle =>
        /\ disconnectLiveSession(lastDisc[1].pre) = lastDisc[1].pre
        /\ disconnectReleases(lastDisc[1].pre, res) = res

\* C9: disconnectLiveSession invoked when already idle with no handles held
\* changes nothing but the caption, which it clears (flags, handles, playback
\* cursor, pending sources and message log stay as they were, and nothing is
\* released); and invoking it twice in a row is equivalent to invoking it once.
TeardownAtIdleClearsCaptionOnly ==
    lastDisc # <<>> =>
        LET pre  == lastDisc[1].pre
            once == disconnectLiveSession(pre)
        IN  /\ Idle(pre) /\ NoHandles(pre) =>
                  /\ once = [pre EXCEPT !.liveCaption = <<>>]
                  /\ disconnectReleases(pre, res) = res
                  /\ chat = [once EXCEPT !.isOpen = chat.isOpen, !.messages = chat.messages]
                  /\ Len(chat.messages) = Len(pre.messages) + 2
            /\ disconnectLiveSession(once) = once
            /\ disconnectReleases(once, disconnectReleases(pre, res)) = disconnectReleases(pre, res)

\* A failed start tore down an idle component whose caption read "Connecting..."
\* and whose playback cursor had advanced in an earlier session.
TeardownAtIdleClearsCaptionOnlyWitness ==
    /\ TornDownAtIdle
    /\ lastDisc[1].by = "catch"
    /\ lastDisc[1].pre.liveCaption = <<"Connecting...">>
    /\ lastDisc[1].pre.nextStartTimeRef > 0
    /\ chat.liveCaption = <<>>
    /\ chat.nextStartTimeRef = lastDisc[1].pre.nextStartTimeRef

\* C10: whenever the live session is idle (neither connecting nor connected), no
\* microphone stream and no audio context is held.
NothingHeldWhenIdle ==
    Idle(chat) => LiveStreams = {} /\ OpenContexts = {}

----------------------------------------------------------------------------
(* Properties of playback scheduling (SpecAudio)                           *)

\* C11: within one live session, for audio chunks scheduled in arrival order,
\* each chunk's start time is at least the previous chunk's start time plus the
\* previous chunk's duration (so start times are non-decreasing and chunks do not
\* overlap), for any arrival times and durations; each start time is the maximum
\* of the playback cursor and the current output time, so no chunk is scheduled
\* in the past.
PlaybackInOrderWithoutOverlap ==
    \A a \in Attempts :
        LET p == res[a].played
        IN  /\ \A i \in 1 .. Len(p) :
                  /\ p[i].start = (IF p[i].cursor >= p[i].now THEN p[i].cursor ELSE p[i].now)
                  /\ p[i].start >= p[i].now
            /\ \A i \in 2 .. Len(p) :
                  /\ p[i].start >= p[i - 1].start + p[i - 1].duration
                  /\ p[i].start >= p[i - 1].start

\* Three chunks were scheduled on one output context: one while the cursor was
\* ahead of the clock, and one after the clock had passed the cursor.
PlaybackInOrderWithoutOverlapWitness ==
    \E a \in Attempts :
        LET p == res[a].played
        IN  /\ Len(p) >= 3
            /\ \E i \in 2 .. Len(p) : p[i].cursor > p[i].now
            /\ \E i \in 2 .. Len(p) : p[i].now > p[i].cursor

----------------------------------------------------------------------------
(* Further properties of the form record (SpecForm)                        *)

\* C12: the form record always has exactly the 13 keys of SchoolData: no
\* update_school_data invocation, whatever keys its argument mapping contains,
\* adds a key outside that set.
RecordHasExactlySchoolDataKeys ==
    DOMAIN formData = SchoolDataKeys

\* C13: setting level to any value on any record through handleChange (name
\* 'level') and through handleVoiceUpdate({level: v}) yields the same record.
LevelRuleSameFromFormAndTool ==
    lastOp.op = "setLevel" => formData = twin

\* A record with an upper certificate had its level set to Primary by both, and
\* both cleared the certificate.
LevelRuleSameFromFormAndToolWitness ==
    /\ lastOp.op = "setLevel"
    /\ lastOp.n = 1
    /\ lastOp.args["level"] = PRIMARY
    /\ formData \in SchoolDataValues
    /\ \A k \in SchoolDataKeys \ {"level", "registrationCertificateUpper"} : formData[k] # ""
    /\ formData["registrationCertificateUpper"] = ""
    /\ twin["registrationCertificateUpper"] = ""

----------------------------------------------------------------------------
(* Properties of submitSchoolData (SpecSubmit)                             *)

\* C14: when the endpoint responds with a non-2xx status s, submitSchoolData
\* returns {success: false, message: "Server returned error status: s"} without
\* throwing and without reading or parsing the response body.
ErrorStatusReported ==
    (apiOut # NoResult /\ apiIn.net \in {"response", "bodyError"} /\ ~Ok(apiIn.status)) =>
        apiOut = Ended("returned", "false", ErrorStatusMsg, apiIn.status, FALSE, FALSE)

\* The endpoint answered 500 with an error page, and the call returned.
ErrorStatusReportedWitness ==
    /\ apiIn.net = "response" /\ apiIn.status = 500 /\ apiIn.body = "html"
    /\ apiOut.outcome = "returned"
    /\ apiOut.status = 500

\* C15: submitSchoolData never throws: a 2xx response whose body is not valid
\* JSON, a network failure and an aborted request each yield a returned
\* ApiResponse with success = false and a message.
SubmitNeverThrows ==
    apiOut # NoResult =>
        /\ apiOut.outcome = "returned"
        /\ \/ apiIn.net \in {"networkError", "abort"}
           \/ apiIn.net = "response" /\ Ok(apiIn.status) /\ apiIn.body \in {"html", "empty"}
           => apiOut.success = "false" /\ apiOut.text # ""

\* A 2xx response with an error page for a body came back as a failure.
SubmitNeverThrowsWitness ==
    /\ apiIn.net = "response" /\ apiIn.status = 200 /\ apiIn.body = "html"
    /\ apiOut.outcome = "returned"
    /\ apiOut.success = "false"
    /\ apiOut.text = InvalidResponseMsg

----------------------------------------------------------------------------
(* Further properties of the life cycle of live sessions (Spec)            *)

Begun(r) == { k \in Attempts : r[k].call # "none" }

\* C16: startLiveSession invoked while the session is open performs the same
\* teardown as disconnectLiveSession and returns without beginning a new
\* connection: the state afterwards is Idle, not Connecting or Open.
StartWhileOpenOnlyTearsDown ==
    StartedWhileConnected =>
        /\ chat = disconnectLiveSession(lastDisc[1].pre)
        /\ res = disconnectReleases(lastDisc[1].pre, lastDisc[1].preRes)
        /\ Begun(res) = Begun(lastDisc[1].preRes)
        /\ Idle(chat)

\* The toggle ran on an open session whose caption had been written to, and
\* closed it.
StartWhileOpenOnlyTearsDownWitness ==
    /\ StartedWhileConnected
    /\ lastDisc[1].pre.sessionRef # 0
    /\ lastDisc[1].preRes[lastDisc[1].pre.sessionRef].session = "open"
    /\ res[lastDisc[1].pre.sessionRef].session = "closing"
    /\ lastDisc[1].pre.liveCaption # <<>>
    /\ chat.liveCaption = <<>>

\* startLiveSession was invoked in the last step while connecting.
StartedWhileConnecting == lastDisc # <<>> /\ lastDisc[1].by = "ignored"

\* C17: startLiveSession invoked while a connection attempt is in progress is
\* ignored: it acquires no microphone stream, starts no second connection and
\* leaves all session state unchanged.
StartWhileConnectingIgnored ==
    StartedWhileConnecting =>
        /\ chat = lastDisc[1].pre
        /\ res = lastDisc[1].preRes

\* The call came while getUserMedia was awaited, and while a session was being
\* connected.
StartWhileConnectingIgnoredWitness ==
    /\ StartedWhileConnecting
    /\ chat.isConnecting
    /\ \E k \in Attempts : res[k].session = "connecting"

\* The continuation of onopen of attempt k runs in this step, after a teardown
\* that came while it awaited resume() (the teardown closed the context).
ResumedAfterTeardown(k) ==
    /\ res[k].onopen = "awaitResume"
    /\ res[res[k].resuming].outCtx = "closed"
    /\ res'[k].onopen # "awaitResume"

\* C18: when a teardown happens while onopen awaits the resume of the output
\* context, the continuation of onopen neither fails on the released input
\* context nor starts the capture pipeline.
TeardownDuringResumeIsHarmless ==
    [][\A k \in Attempts :
           ResumedAfterTeardown(k) => res'[k].onopen # "failed" /\ res'[k].capture = 0]_vars

----------------------------------------------------------------------------
(* The capture pipeline (SpecCapture)                                      *)

\* C19: after the session has ended (onclose, onerror or a stop by the user) no
\* further microphone block is sent: sendRealtimeInput is invoked only while
\* the session is open and the component is connected.
MicrophoneSentOnlyWhileOpen ==
    wire.mic.session # "none" => wire.mic.session = "open" /\ wire.mic.connected

----------------------------------------------------------------------------
(* The states of the component (Spec)                                      *)

\* The state the two flags of the component stand for.
State(c) ==
    IF c.isConnecting /\ c.isLiveConnected THEN "ConnectingAndOpen"
    ELSE IF c.isLiveConnected THEN "Open"
    ELSE IF c.isConnecting THEN "Connecting"
    ELSE "Idle"

Moves ==
    { <<"Idle", "Connecting">>, <<"Connecting", "Open">>,
      <<"Open", "Idle">>, <<"Connecting", "Idle">> }

\* C20: the state moves only Idle -> Connecting, Connecting -> Open, Open -> Idle
\* and Connecting -> Idle; it is never Connecting and Open at once, and Open is
\* never entered directly from Idle by a late callback.
StateMovesAlongTheCycle ==
    [][State(chat') = State(chat) \/ <<State(chat), State(chat')>> \in Moves]_vars

----------------------------------------------------------------------------
(* Connection attempts (SpecConnect)                                       *)

\* C21: a connection attempt never stays in Connecting forever: once
\* startLiveSession has set Connecting, the session eventually reaches Open or
\* returns to Idle, also when the promise of connect rejects and no callback
\* is called.
ConnectingEventuallyEnds == (State(chat) = "Connecting") ~> (State(chat) # "Connecting")

----------------------------------------------------------------------------
(* Failed starts (Spec)                                                    *)

\* startLiveSession ended in its catch block in the last step.
StartFailed == lastDisc # <<>> /\ lastDisc[1].by = "catch"

\* The error of a failed start in this environment.
StartError ==
    IF ~env.apiKey THEN KeyMissingError
    ELSE IF ~env.mediaDevices THEN UnsupportedError
    ELSE DeniedError

StatusLine ==
    IF ~env.apiKey THEN "API Key is missing."
    ELSE IF ~env.mediaDevices
         THEN "Error: Microphone access is not supported in this context. Ensure you are using HTTPS."
         ELSE "Microphone access denied."

\* C22: with the API key missing, microphone capture unsupported or the
\* permission denied, startLiveSession ends in Idle, its attempt has acquired no
\* microphone stream, audio context or network session, and exactly two
\* messages are appended: the status line of the error and the support line.
FailedStartAcquiresNothingAndReports ==
    StartFailed =>
        /\ Idle(chat)
        /\ res[lastDisc[1].attempt].stream = "none"
        /\ res[lastDisc[1].attempt].inCtx = "none"
        /\ res[lastDisc[1].attempt].outCtx = "none"
        /\ res[lastDisc[1].attempt].session = "none"
        /\ chat.messages = lastDisc[1].pre.messages \o <<StatusLine, SUPPORT_MSG>>

\* A start failed on a denied permission after an earlier start had failed too.
FailedStartAcquiresNothingAndReportsWitness ==
    /\ StartFailed
    /\ StartError = DeniedError
    /\ lastDisc[1].attempt = 2
    /\ Len(chat.messages) > Len(lastDisc[1].pre.messages)

----------------------------------------------------------------------------
(* Teardown with failing releases (SpecTeardown)                           *)

\* C23: disconnectLiveSession attempts the release of every held resource
\* (microphone tracks, network session, output context, input context) even
\* when the release of an earlier one fails: when one release throws, at most
\* that one is left undone; afterwards the component is Idle with all handles
\* cleared.
TeardownAttemptsEveryRelease ==
    (lastDisc # <<>> /\ lastDisc[1].by = "stop") =>
        /\ Idle(chat)
        /\ NoHandles(chat)
        /\ Cardinality({ i \in Releases : Release(lastDisc[1].pre, res, i) # res }) <= 1

----------------------------------------------------------------------------
(* Playback across sessions (SpecAudio)                                    *)

\* disconnectLiveSession ran in the last step.
TornDown == lastDisc # <<>> /\ lastDisc[1].by \in {"stop", "start", "catch"}

\* The first chunk played on each output context started at the current time of
\* that context.
FirstChunkStartsNow ==
    \A a \in Attempts :
        res[a].played # <<>> => res[a].played[1].start = res[a].played[1].now

\* C24: every teardown of a live session resets the playback cursor to zero and
\* empties the set of pending sources, so that the first audio chunk of the next
\* session is scheduled at that session's current output time and not at a
\* cursor left over from the session before.
TeardownResetsPlayback ==
    /\ TornDown => chat.nextStartTimeRef = 0 /\ chat.sourcesRef = {}
    /\ FirstChunkStartsNow

----------------------------------------------------------------------------
(* The system instruction of a session (SpecTools)                         *)

\* C25: the next missing field embedded in a live session's system instruction
\* is the one computed from the form record as it is when that session becomes
\* open, not from the record at an earlier point of the connection attempt: a
\* form edit made while the session is connecting is reflected.
InstructionNamesFieldMissingAtOpen ==
    [][\A k \in Attempts :
           (res[k].session = "connecting" /\ res'[k].session = "open") =>
               res'[k].missingField = getNextMissingField(formData')]_vars

----------------------------------------------------------------------------
(* The order of tool responses (SpecReplies)                               *)

\* The responses in seq answer the calls of the last message, one each, in the
\* order of the message.
AnswersInOrder(seq) ==
    /\ Len(seq) = Len(wire.recv)
    /\ \A i \in 1 .. Len(seq) :
          /\ wire.recv[i].id = i
          /\ seq[i].id = i
          /\ seq[i].name = wire.recv[i].name

\* C26 as stated: when one inbound message carries several tool invocations, all
\* are dispatched in message order, their responses are sent in that order, and
\* every response has been sent by the time the message handler returns.
ResponsesSentWhenHandlerReturns ==
    /\ wire.queued = <<>>
    /\ AnswersInOrder(wire.sent)

\* C26, amended: all invocations are dispatched in message order; when the
\* handler returns, their responses are queued on the session promise in that
\* order and none is sent yet; they are sent in that order before any other
\* event is handled.
ResponsesQueuedThenSentInOrder ==
    /\ wire.queued # <<>> => wire.sent = <<>> /\ AnswersInOrder(wire.queued)
    /\ wire.queued = <<>> => AnswersInOrder(wire.sent)

\* Two different invocations of one message have been answered.
ResponsesQueuedThenSentInOrderWitness ==
    /\ wire.queued = <<>>
    /\ Len(wire.sent) = 2
    /\ wire.sent[1].name = "submit_report"
    /\ wire.sent[2].name = "update_school_data"

----------------------------------------------------------------------------
(* Unknown tools (SpecTools)                                               *)

----------------------------------------------------------------------------
(* Reporting of failures (SpecConnect)                                     *)

\* A step in which attempt k fails: its start ends in the catch block, its
\* connect call fails, or its connection reports an error.
StartFails(k) == res[k].call # "failed" /\ res'[k].call = "failed"
ConnectFails(k) == res[k].session = "connecting" /\ res'[k].session = "rejected"
SessionErrs(k) == OnError(k)

\* C28: every failure appends at least one user-visible message to the chat
\* log: a failed session start, a connection attempt whose connect call fails,
\* and an error of the connection, which also re-opens the chat surface and
\* returns the session to Idle.
EveryFailureIsReported ==
    [][\A k \in Attempts :
           /\ (StartFails(k) \/ ConnectFails(k) \/ SessionErrs(k)) =>
                  Len(chat'.messages) > Len(chat.messages)
           /\ SessionErrs(k) => chat'.isOpen /\ Idle(chat')]_vars

\* The same for the failures that reach a handler of the component.
CaughtFailureIsReported ==
    [][\A k \in Attempts :
           /\ (StartFails(k) \/ SessionErrs(k)) => Len(chat'.messages) > Len(chat.messages)
           /\ SessionErrs(k) => chat'.isOpen /\ Idle(chat')]_vars

----------------------------------------------------------------------------
(* Manual edits and tool updates on one record (SpecMerge)                 *)

\* The fields a writer names.
Named(w) == IF w.by = "handleVoiceUpdate" THEN DOMAIN w.updates ELSE {w.name}
NamedValue(w, k) == IF w.by = "handleVoiceUpdate" THEN w.updates[k] ELSE w.value

\* The writer sets the level to 'Primary (1-5)'.
SetsPrimary(w) == "level" \in Named(w) /\ NamedValue(w, "level") = PRIMARY

\* The fields a writer assigns, and the values it gives them: the fields it
\* names, and the upper-primary certificate, emptied, when it sets the level to
\* 'Primary (1-5)'.
Assigned(w) ==
    Named(w) \cup (IF SetsPrimary(w) THEN {"registrationCertificateUpper"} ELSE {})
AssignedValue(w, k) ==
    IF SetsPrimary(w) /\ k = "registrationCertificateUpper" THEN "" ELSE NamedValue(w, k)

BothApplied == Len(merge.applied) = 2

\* C29 as stated: for any interleaving of a manual edit and an
\* update_school_data call, every field written by only one of them keeps that
\* value, and a field written by both holds the value of whichever was applied
\* last.
NamedFieldsKeepTheirValues ==
    BothApplied =>
        LET a == merge.applied[1]
            b == merge.applied[2]
        IN  \A k \in SchoolDataKeys :
                /\ k \in Named(b) => formData[k] = NamedValue(b, k)
                /\ k \in Named(a) \ Named(b) => formData[k] = NamedValue(a, k)

\* C29, amended: a writer assigns the fields it names and, when it sets the
\* level to 'Primary (1-5)', also empties the upper-primary certificate. For a
\* manual edit and an update_school_data call in either order, a field assigned
\* by only one of them keeps that value, a field assigned by both holds the
\* value of the one applied last, and every other field is as it was before.
AssignedFieldsKeepTheirValues ==
    BothApplied =>
        LET a == merge.applied[1]
            b == merge.applied[2]
        IN  /\ DOMAIN formData = SchoolDataKeys
            /\ \A k \in SchoolDataKeys :
                  formData[k] = IF k \in Assigned(b) THEN AssignedValue(b, k)
                                ELSE IF k \in Assigned(a) THEN AssignedValue(a, k)
                                ELSE merge.start[k]

\* A file was chosen after a tool update of another field and of the same
\* field, on a record that already held a value.
AssignedFieldsKeepTheirValuesWitness ==
    /\ BothApplied
    /\ merge.applied[1].by = "handleVoiceUpdate"
    /\ merge.applied[2].by = "handleFileChange"
    /\ merge.applied[2].name = "registrationCertificateUpper"
    /\ "level" \in Named(merge.applied[1])
    /\ "registrationCertificateUpper" \in Named(merge.applied[1])
    /\ merge.start["schoolName"] = SomeText
    /\ formData["schoolName"] = SomeText
    /\ formData["registrationCertificateUpper"] = SomeText

----------------------------------------------------------------------------
(* The reset of the form (SpecReset)                                       *)

\* C30: the form record is reset to all-empty only by a submission that
\* returns success: a submission that fails validation, one that returns
\* success = false and one that fails in transport leave every field of the
\* record unchanged.
ResetOnlyOnSuccess ==
    [][/\ (lastOp'.op = "invalid" /\ lastOp'.n # lastOp.n) => formData' = formData
       /\ Len(submit'.inflight) > Len(submit.inflight) => formData' = formData
       /\ Len(submit'.inflight) < Len(submit.inflight) =>
             formData' = IF apiOut'.success = "true" THEN INITIAL_DATA ELSE formData]_vars

\* A submission failed in transport and the record, edited meanwhile, is as it
\* was when the answer came.
ResetOnlyOnSuccessWitness ==
    /\ apiIn.net = "networkError"
    /\ apiOut.success = "false"
    /\ submit.inflight = <<>>
    /\ ~submit.isSubmitting
    /\ lastOp.op = "handleChange"
    /\ formData["schoolName"] = ""
    /\ formData["udiseCode"] = SomeText

----------------------------------------------------------------------------
(* Properties of the typed conversation (SpecChat, SpecLoading)            *)

\* The step in which a response arrives, and the one in which a request is rejected.
AnswerArrives == turn'.last = "answered" /\ Len(turn'.inflight) < Len(turn.inflight)
RejectionArrives == turn'.last = "rejected" /\ Len(turn'.inflight) < Len(turn.inflight)

StatusTurn(fc) ==
    IF fc.name = "submit_report" THEN "Submitting report..."
    ELSE IF DOMAIN fc.args = {"level"} THEN "Updated fields: level"
    ELSE "Updated fields: schoolName, ..."

StatusTurns(calls) == [i \in 1 .. Len(calls) |-> StatusTurn(calls[i])]

\* The record after the updates among calls[i..], taken first to last.
RECURSIVE UpdatedInOrder(_, _, _)
UpdatedInOrder(data, calls, i) ==
    IF i > Len(calls) THEN data
    ELSE UpdatedInOrder(IF calls[i].name = "update_school_data"
                        THEN handleVoiceUpdate(data, calls[i].args) ELSE data,
                        calls, i + 1)

\* The submissions after one call of the submit callback for each submit_report.
RECURSIVE SubmittedInOrder(_, _, _, _)
SubmittedInOrder(sub, data, calls, i) ==
    IF i > Len(calls) THEN sub
    ELSE SubmittedInOrder(IF calls[i].name = "submit_report"
                          THEN handleSubmit(sub, data) ELSE sub,
                          data, calls, i + 1)

TextTurns(text) ==
    IF text = Undefined THEN <<"Processed.">>
    ELSE IF text = TaggedReply THEN <<"advice", SUPPORT_MSG>>
    ELSE <<text>>

\* C31: when a response arrives and the ChatBot has its two callbacks, the step
\* applies the returned tool invocations first to last (the updates to the record
\* through the update callback, one call of the submit callback per
\* submit_report), appends one status turn for each in that order, and after
\* them the turn of the response's text (followed by the support line when the
\* text carried the marker); nothing is sent on a live session.
ChatResponseAppliedInOrder ==
    [][ AnswerArrives /\ chat.onUpdateFormRef /\ chat.onSubmitFormRef
          => LET resp == turn'.answer
             IN  /\ chat'.messages = chat.messages \o StatusTurns(resp.calls)
                                                    \o TextTurns(resp.text)
                 /\ formData' = UpdatedInOrder(formData, resp.calls, 1)
                 /\ submit' = SubmittedInOrder(submit, chat.currentDataRef, resp.calls, 1)
                 /\ wire' = wire ]_vars

ChatResponseAppliedInOrderWitness ==
    /\ turn.last = "answered"
    /\ chat.onUpdateFormRef
    /\ Len(turn.answer.calls) = 2
    /\ turn.answer.calls[1].args = FullArgs
    /\ turn.answer.calls[2].args = [k \in {"level"} |-> PRIMARY]
    /\ Len(chat.messages) >= 3
    /\ SubSeq(chat.messages, Len(chat.messages) - 2, Len(chat.messages))
           = <<"Updated fields: schoolName, ...", "Updated fields: level", "reply">>
    /\ formData["level"] = PRIMARY
    /\ formData["registrationCertificateUpper"] = ""
    /\ formData["schoolName"] = SomeText

\* The step in which handleSendMessage fails before sending, and any step in
\* which it passes its guard.
SendThrows == turn'.n = turn.n + 1 /\ turn'.last = "threw"
SendPasses == turn'.n = turn.n + 1 /\ turn'.last \in {"sent", "threw"}

UserTurns == {"user: hi", "user: (image)", "user: hi (image)"}
Apologies == {"Connection error.", "API Key Error."}

\* C32: a request that fails, because the API key is missing or because
\* generateContent rejects, leaves after the user's turn exactly two more turns, an
\* apology and the support line. The failure changes nothing else of the
\* component (flags and refs of the live session included), nothing of the form,
\* its submissions, or the live resources; it ends with isLoading false; the
\* input and the image were cleared when the handler passed its guard and the
\* failure does not bring them back.
ChatFailureAppendsTwoTurns ==
    [][ /\ SendPasses => turn'.inputValue = "" /\ turn'.selectedImage = NoImage
        /\ SendThrows \/ RejectionArrives
              => /\ \E user \in UserTurns, apology \in Apologies :
                        /\ chat'.messages =
                              (IF SendThrows THEN Append(chat.messages, user)
                                             ELSE chat.messages) \o <<apology, SUPPORT_MSG>>
                        /\ RejectionArrives
                              => chat.messages[Len(chat.messages)] \in UserTurns
                 /\ chat' = [chat EXCEPT !.messages = chat'.messages]
                 /\ formData' = formData /\ reads' = reads /\ submit' = submit
                 /\ res' = res /\ wire' = wire
                 /\ ~turn'.isLoading
                 /\ RejectionArrives
                       => /\ turn'.inputValue = turn.inputValue
                          /\ turn'.selectedImage = turn.selectedImage ]_vars

\* A send that failed for want of the API key.
SendThrewForMissingKey ==
    /\ turn.last = "threw"
    /\ ~env.apiKey
    /\ chat.messages = <<Greeting, "user: hi", "API Key Error.", SUPPORT_MSG>>
    /\ turn.inputValue = ""

\* A request rejected after an earlier response had filled the record.
ChatFailureAppendsTwoTurnsWitness ==
    /\ turn.last = "rejected"
    /\ formData["schoolName"] = SomeText
    /\ Len(chat.messages) >= 3
    /\ SubSeq(chat.messages, Len(chat.messages) - 2, Len(chat.messages))
           = <<"user: hi", "Connection error.", SUPPORT_MSG>>
    /\ ~turn.isLoading

\* C33: a request whose response never arrives is ended all the same: whenever
\* the chat is loading, it later is not.
ChatLoadingEventuallyEnds == turn.isLoading ~> ~turn.isLoading

\* update_school_data followed by submit_report, and nothing else.
UpdateThenSubmit(calls) ==
    /\ Len(calls) = 2
    /\ calls[1].name = "update_school_data"
    /\ calls[2].name = "submit_report"

\* One inbound message of a live session is handled.
MessageArrives == wire'.n = wire.n + 1

\* C34: when update_school_data and then submit_report arrive in one inbound
\* message of a live session, the refs holding the record of the last render, the
\* submission validates and sends the record as the update left it.
UpdateThenSubmitSendsUpdated ==
    [][ ( /\ MessageArrives
          /\ UpdateThenSubmit(wire'.recv)
          /\ chat.onUpdateFormRef /\ chat.onSubmitFormRef
          /\ chat.currentDataRef = formData )
        => submit' = handleSubmit(submit, formData') ]_vars

\* The same for update_school_data and submit_report returned by one response of
\* the typed conversation.
ChatUpdateThenSubmitSendsUpdated ==
    [][ ( /\ AnswerArrives
          /\ UpdateThenSubmit(turn'.answer.calls)
          /\ chat.onUpdateFormRef /\ chat.onSubmitFormRef
          /\ chat.currentDataRef = formData )
        => submit' = handleSubmit(submit, formData') ]_vars

\* C35: at most one submission request is in flight at any time.
AtMostOneSubmissionInFlight == Len(submit.inflight) <= 1

\* handleSendMessage is called in this step.
SendCalled == turn'.n = turn.n + 1

\* Nothing to send: the text is empty or blank and no image is attached.
NothingToSend == turn.inputValue \in {"", " "} /\ turn.selectedImage = NoImage

\* C37: at most one request of the typed conversation is in flight, and
\* isLoading is true exactly while one is. A call of handleSendMessage while
\* loading, or with nothing to send, appends no turn, sends no request and
\* leaves the input as it is; any other call appends the user's turn and, the
\* API key present, sends one request. Every step that ends a request (its
\* response, its rejection, the missing key) ends with isLoading false.
OneChatRequestAtATime ==
    [][ /\ Len(turn'.inflight) <= 1
        /\ (turn'.isLoading <=> turn'.inflight # <<>>)
        /\ SendCalled /\ (turn.isLoading \/ NothingToSend)
              => /\ chat' = chat
                 /\ turn' = [turn EXCEPT !.n = turn'.n, !.last = turn'.last]
        /\ SendCalled /\ ~(turn.isLoading \/ NothingToSend)
              => /\ Len(chat'.messages) > Len(chat.messages)
                 /\ chat'.messages[Len(chat.messages) + 1] \in UserTurns
                 /\ turn'.inputValue = "" /\ turn'.selectedImage = NoImage
                 /\ Len(turn'.inflight) = (IF env.apiKey THEN 1 ELSE 0)
        /\ AnswerArrives \/ RejectionArrives \/ SendThrows
              => ~turn'.isLoading ]_vars

\* A call refused while a request is in flight, although text was typed and an
\* image attached.
OneChatRequestAtATimeWitness ==
    /\ turn.last = "ignored"
    /\ turn.isLoading
    /\ Len(turn.inflight) = 1
    /\ turn.inputValue = "hi"
    /\ turn.selectedImage = SomeImage

----------------------------------------------------------------------------
(* Callbacks of sessions no longer current (Spec)                          *)

\* Session k is not the one in sessionRef: it was torn down, or a later call of
\* startLiveSession has put its own session there.
NotCurrent(k) == chat.sessionRef # k

\* A callback of session k runs in this step.
CallbackOf(k) == OnOpen(k) \/ OnClose(k) \/ (MessageArrives /\ wire'.session = k)

\* C36: a callback (onopen, onmessage, onclose) of a session that is no longer
\* the current one changes neither isConnecting nor isLiveConnected, schedules
\* no audio, and changes nothing of the record.
LateCallbacksHaveNoEffect ==
    [][ \A k \in Attempts :
            NotCurrent(k) /\ CallbackOf(k)
              => /\ chat'.isConnecting = chat.isConnecting
                 /\ chat'.isLiveConnected = chat.isLiveConnected
                 /\ chat'.sourcesRef = chat.sourcesRef
                 /\ chat'.nextStartTimeRef = chat.nextStartTimeRef
                 /\ formData' = formData ]_vars

====
